---- MODULE Spec2Model ----
(***************************************************************************)
(* Eco Jump (src/main.py): the run-time simulation engine and the game     *)
(* flow controller.  One frame of Game.run is handle_events (one step per  *)
(* input event) followed by update (one step).  Rendering is left out.     *)
(*                                                                         *)
(* Floats are kept as fixed-point integers, exact for every constant of    *)
(* the source:                                                             *)
(*   vel.y     in 1/VEL_UNIT px per tick  (GRAVITY 0.5, speed factor       *)
(*             1 + score/8000, so every increment is a whole number)       *)
(*   vel.x     in 1/XVEL_UNIT px per tick                                  *)
(*   energy    in 1/ENERGY_UNIT energy points                              *)
(*   fade      in 1/FADE_UNIT                                              *)
(*   phase     in 1/PHASE_UNIT radians                                     *)
(*   random()  draws in 1/DRAW_UNIT                                        *)
(* Rect coordinates are the integers pygame keeps.                         *)
(***************************************************************************)
EXTENDS Integers, Sequences, FiniteSets, TLC

\* ---------------------------------------------------------------- config
WIDTH == 460
HEIGHT == 720
FPS == 60

VEL_UNIT == 16000
XVEL_UNIT == 40000
ENERGY_UNIT == 10000
FADE_UNIT == 100
PHASE_UNIT == 800000
DRAW_UNIT == 100000

GRAVITY == VEL_UNIT \div 2
PLAYER_MOVE_SPEED == (62 * XVEL_UNIT) \div 10
PLAYER_JUMP_VEL == -14 * VEL_UNIT
PLAYER_W == 50
PLAYER_H == 50
SCROLL_TRIGGER_Y == (HEIGHT * 40) \div 100

INITIAL_ENERGY == 100 * ENERGY_UNIT
MAX_ENERGY == 100 * ENERGY_UNIT
PASSIVE_ENERGY_DRAIN == (48 * ENERGY_UNIT) \div 1000
ENEMY_HIT_ENERGY_LOSS == 22 * ENERGY_UNIT
ENERGY_FROM_SOLAR == 14 * ENERGY_UNIT
ENERGY_FROM_WIND == 7 * ENERGY_UNIT
ENERGY_FROM_HYDRO == 9 * ENERGY_UNIT
ENERGY_FROM_CELL == 22 * ENERGY_UNIT
REVIVE_ENERGY == 55 * ENERGY_UNIT

DUR_LED == 14 * FPS
DUR_SHIELD == 12 * FPS
DUR_JET == 2 * FPS
DUR_INVINCIBLE == 2 * FPS

PLATFORM_W == 104
PLATFORM_H == 16
SPAWN_MIN_GAP == 90
SPAWN_MAX_GAP == 170
SPAWN_X_MARGIN == 24
MAX_PLATFORMS_ON_SCREEN == 22
ENEMY_SIZE == 36
BONUS_SIZE == 28

ENEMY_BASE_SPAWN_CHANCE == (6 * DRAW_UNIT) \div 100
BONUS_CHANCE_BASE == (22 * DRAW_UNIT) \div 100
PROGRESS_FULL == 4000

STATE_MENU == "menu"
STATE_PLAY == "play"
STATE_PAUSE == "pause"
STATE_QUIZ == "quiz"
STATE_GAMEOVER == "gameover"
States == {STATE_MENU, STATE_PLAY, STATE_PAUSE, STATE_QUIZ, STATE_GAMEOVER}

P_NORMAL == "normal"
P_SOLAR == "solar"
P_WIND == "wind"
P_HYDRO == "hydro"
P_MOVING == "moving"
P_BREAKING == "breaking"
P_DISAPPEARING == "disappearing"

E_BULB == "bulb"
E_PIPE == "pipe"
E_SMOKE == "smoke"
E_CHASER == "chaser"

B_CELL == "cell"
B_LED == "led"
B_SHIELD == "shield"
B_JET == "jetpack"
B_SPRING == "spring"

\* None, for Optional values
None == "None"
\* last_safe_platform = None
NoPlatform == 0
\* _touch_x = None
NoTouch == -1

\* ---------------------------------------------------------------- bounds
\* PLAY ticks explored in one behaviour
MaxPlayTicks == 3

\* ---------------------------------------------------------------- helpers
Max(a, b) == IF a >= b THEN a ELSE b
Min(a, b) == IF a <= b THEN a ELSE b
Abs(a) == IF a >= 0 THEN a ELSE -a

\* clamp(v, lo, hi) = max(lo, min(hi, v))
clamp(v, lo, hi) == Max(lo, Min(hi, v))

\* int(x) of a float x = n/d: truncation toward zero
TruncDiv(n, d) == IF n >= 0 THEN n \div d ELSE -((-n) \div d)

\* int(lerp(a, b, 0.35)) = int(a + (b - a) * 0.35)
lerp35(a, b) == TruncDiv(a * 100 + (b - a) * 35, 100)

\* math.sin, in thousandths, by the midpoint of sixteen equal arcs of the
\* circle; phase in 1/PHASE_UNIT radians (two pi = 5026548 units)
TWO_PI == 5026548
SinTable == <<195, 556, 831, 981, 981, 831, 556, 195,
              -195, -556, -831, -981, -981, -831, -556, -195>>
Sin1000(phase) == SinTable[(((phase % TWO_PI) * 16) \div TWO_PI) + 1]

\* Rect.colliderect: the two rectangles overlap with positive area
colliderect(ax, ay, aw, ah, bx, by, bw, bh) ==
    /\ ax < bx + bw
    /\ ax + aw > bx
    /\ ay < by + bh
    /\ ay + ah > by

\* ---------------------------------------------------------------- state
VARIABLES
    state,          \* Game.state
    player,         \* Game.player: rect (x, y = topleft), prev_rect.bottom, vel,
                    \* energy, lives, score, effect timers, last_safe_platform
    platforms,      \* Game.platforms, in the group's insertion order
    enemies,        \* Game.enemies
    bonuses,        \* Game.bonuses
    world,          \* Game.world: spawn_y, score
    score,          \* Game.score
    high_score,     \* Game.high_score
    scores_file,    \* "high_score" of data/scores.json, as load_scores reads it
    ascended_px,    \* Game.ascended_px
    quiz,           \* Game.quiz: selected, cur, feedback, feedback_timer
    touch_x,        \* Game._touch_x
    next_id,        \* identity of the next Platform object created
    ticks,          \* PLAY ticks taken so far (bounded by MaxPlayTicks)
    obs,            \* what the last step that changed the game did (history,
                    \* read by the properties)
    hist            \* what the run keeps no record of (history): the lives at
                    \* the start and at the end of the last tick that called
                    \* trigger_quiz, and the highest score reached

vars == <<state, player, platforms, enemies, bonuses, world, score, high_score,
          scores_file, ascended_px, quiz, touch_x, next_id, ticks, obs, hist>>

\* the whole Game object as one record, for the methods below
Self ==
    [state |-> state, player |-> player, platforms |-> platforms,
     enemies |-> enemies, bonuses |-> bonuses, world |-> world, score |-> score,
     high_score |-> high_score, scores_file |-> scores_file,
     ascended_px |-> ascended_px, quiz |-> quiz, touch_x |-> touch_x,
     next_id |-> next_id, ticks |-> ticks, obs |-> obs, hist |-> hist]

Commit(g) ==
    /\ state' = g.state
    /\ player' = g.player
    /\ platforms' = g.platforms
    /\ enemies' = g.enemies
    /\ bonuses' = g.bonuses
    /\ world' = g.world
    /\ score' = g.score
    /\ high_score' = g.high_score
    /\ scores_file' = g.scores_file
    /\ ascended_px' = g.ascended_px
    /\ quiz' = g.quiz
    /\ touch_x' = g.touch_x
    /\ next_id' = g.next_id
    /\ ticks' = g.ticks
    /\ obs' = g.obs
    /\ hist' = g.hist

\* history kept across steps, before any life is lost
NewHist(g) ==
    [fired |-> FALSE, start |-> g.player.lives, entry |-> g.player.lives,
     best |-> g.score]

\* history of one step, empty at its start
NewObs(step, g) ==
    [step |-> step,                  \* "init", "event", "tick"
     phase0 |-> g.state,             \* Game.state before the step
     lives0 |-> g.player.lives,      \* lives before the step
     score0 |-> g.score,             \* score before the step
     high0 |-> g.high_score,         \* high score before the step
     p0 |-> g.player,                \* the player before the step
     p1 |-> g.player,                \* the player after Player.update (PLAY tick)
     fb0 |-> g.quiz.feedback_timer,  \* quiz.feedback_timer before the step
     file0 |-> g.scores_file,        \* stored high score before the step
     asc0 |-> g.ascended_px,         \* ascended_px before the step
     pf |-> 0,                       \* progress_factor the PLAY tick used
     sf |-> 0,                       \* speed_factor the PLAY tick used
     draw |-> -1,                    \* the draw and the result of a call of
     chose |-> None,                 \* choose_platform_type on its own
     safe0 |-> g.player.last_safe_platform,
     reset |-> FALSE,                \* init_run ran in the step
     vy |-> 0,                       \* vel.y after Player.update (PLAY tick)
     top |-> g.player.y,             \* rect.top after Player.update and the
                                     \* camera (PLAY tick)
     cam0 |-> <<>>,                  \* rect.top of the player, y of the sprites,
     cam1 |-> <<>>,                  \* spawn_y and ascended_px before and after
                                     \* the camera (PLAY tick)
     plats0 |-> <<>>,                \* the platforms before and after a call of
     plats1 |-> <<>>,                \* resolve_platform_collisions on its own
     killed |-> {},                  \* rect.top of the platforms the cap killed
     kept |-> {},                    \* and of those it kept, when it killed any
     trig |-> <<>>,                  \* one entry per trigger_quiz call
     landed |-> <<>>,                \* one entry per landing applied
     effects |-> <<>>,               \* one entry per handle_platform_effect call
     inactive_hit |-> FALSE,         \* an inactive platform met the straddle test
     touching |-> FALSE,             \* the player's rect met an active platform's
                                     \* when resolve_platform_collisions ran
     hits |-> 0,                     \* enemy contacts (take_enemy_hit calls)
     hitlog |-> <<>>,                \* one entry per enemy contact
     picks |-> 0,                    \* calls of quiz.pick
     resolved |-> None]              \* "correct"/"wrong": resolve_quiz_result ran

\* ---------------------------------------------------------------- entities
\* Player.__init__(x, y, lives): rect centred on (x, y)
Player(cx, cy, lives) ==
    [x |-> cx - PLAYER_W \div 2, y |-> cy - PLAYER_H \div 2,
     prev_bottom |-> cy - PLAYER_H \div 2 + PLAYER_H,
     vel_x |-> 0, vel_y |-> 0,
     energy |-> INITIAL_ENERGY, lives |-> lives, score |-> 0,
     drain_slow |-> 0, shield |-> 0, jet |-> 0, invincible |-> 0,
     last_safe_platform |-> NoPlatform]

\* Platform.__init__(x, y, kind); phase is random.random() * 10.0
Platform(id, x, y, kind, phase) ==
    [id |-> id, x |-> x, y |-> y, kind |-> kind, active |-> TRUE,
     fade |-> FADE_UNIT, phase |-> phase, start_x |-> x]

\* Enemy.__init__(x, y, kind): rect centred on (x, y)
Enemy(cx, cy, kind, phase) ==
    [x |-> cx - ENEMY_SIZE \div 2, y |-> cy - ENEMY_SIZE \div 2,
     kind |-> kind, phase |-> phase]

\* Bonus.__init__(x, y, kind): rect centred on (x, y)
Bonus(cx, cy, kind, phase) ==
    [x |-> cx - BONUS_SIZE \div 2, y |-> cy - BONUS_SIZE \div 2,
     kind |-> kind, phase |-> phase]

\* ---------------------------------------------------------------- world
\* a faulty progress_factor: no clamp
progress_factor_unclamped(w) == w.score

\* World.progress_factor, in 1/PROGRESS_FULL
progress_factor(w) == clamp(w.score, 0, PROGRESS_FULL)

\* World.speed_factor = 1 + 0.5 * progress_factor, in 1/SPEED_UNIT
SPEED_UNIT == 2 * PROGRESS_FULL
speed_factor(w) == SPEED_UNIT + progress_factor(w)

\* r < a/100 - (b/100) * progress_factor, for a draw r in 1/DRAW_UNIT
DRAW_SCALE == (100 * PROGRESS_FULL) \div DRAW_UNIT
Below(r, a, b, w) == r * DRAW_SCALE < a * PROGRESS_FULL - b * progress_factor(w)

\* a faulty choose_platform_type: the hydro test moves with the progress as far
\* as the wind test
choose_platform_type_hydro_as_wind(w, r) ==
    IF Below(r, 24, 8, w) THEN P_SOLAR
    ELSE IF Below(r, 44, 8, w) THEN P_WIND
    ELSE IF Below(r, 60, 8, w) THEN P_HYDRO
    ELSE IF Below(r, 78, 8, w) THEN P_NORMAL
    ELSE IF Below(r, 88, 0, w) THEN P_MOVING
    ELSE IF Below(r, 94, 0, w) THEN P_DISAPPEARING
    ELSE P_BREAKING

\* a faulty choose_platform_type: the bands do not move with the progress
choose_platform_type_fixed_bands(w, r) ==
    IF Below(r, 24, 0, w) THEN P_SOLAR
    ELSE IF Below(r, 44, 0, w) THEN P_WIND
    ELSE IF Below(r, 60, 0, w) THEN P_HYDRO
    ELSE IF Below(r, 78, 0, w) THEN P_NORMAL
    ELSE IF Below(r, 88, 0, w) THEN P_MOVING
    ELSE IF Below(r, 94, 0, w) THEN P_DISAPPEARING
    ELSE P_BREAKING

\* World.choose_platform_type, on the draw r
choose_platform_type(w, r) ==
    IF Below(r, 24, 8, w) THEN P_SOLAR
    ELSE IF Below(r, 44, 8, w) THEN P_WIND
    ELSE IF Below(r, 60, 6, w) THEN P_HYDRO
    ELSE IF Below(r, 78, 8, w) THEN P_NORMAL
    ELSE IF Below(r, 88, 0, w) THEN P_MOVING
    ELSE IF Below(r, 94, 0, w) THEN P_DISAPPEARING
    ELSE P_BREAKING

\* World.enemy_spawn_chance: r1 < 0.06 + 0.18 * progress_factor
enemy_spawn_chance(w, r1) == Below(r1, 6, -18, w)

\* World.choose_enemy, on the draws r1 (presence) and r (kind)
choose_enemy(w, r1, r) ==
    IF enemy_spawn_chance(w, r1)
    THEN IF Below(r, 40, 0, w) THEN E_BULB
         ELSE IF Below(r, 70, 0, w) THEN E_PIPE
         ELSE IF Below(r, 85, 0, w) THEN E_SMOKE
         ELSE E_CHASER
    ELSE None

\* World.choose_bonus, on the draws r (presence) and rr (kind)
choose_bonus(w, r, rr) ==
    IF r < BONUS_CHANCE_BASE
    THEN IF Below(rr, 40, 15, w) THEN B_CELL
         ELSE IF Below(rr, 60, 0, w) THEN B_LED
         ELSE IF Below(rr, 80, 0, w) THEN B_SHIELD
         ELSE IF Below(rr, 93, 0, w) THEN B_JET
         ELSE B_SPRING
    ELSE None

\* ---------------------------------------------------------------- Player
\* vel.y given by the jetpack: -9.5
JET_VEL == (-95 * VEL_UNIT) \div 10
\* vel.y is capped at -8 by an enemy hit
HIT_VEL_CAP == -8 * VEL_UNIT

\* the horizontal velocity Player.update sets from touch and keys
InputVelX(keys, touch, speed) ==
    IF touch # NoTouch
    THEN IF touch < WIDTH \div 2 THEN -speed ELSE speed
    ELSE IF keys = "left" THEN -speed
         ELSE IF keys = "right" THEN speed
         ELSE 0

\* a faulty Player.update: the shield timer is left as it is
Player_update_keeping_shield(p, keys, touch) ==
    LET vx == InputVelX(keys, touch, PLAYER_MOVE_SPEED)
        x1 == p.x + TruncDiv(vx, XVEL_UNIT)
        x2 == IF x1 + PLAYER_W < 0 THEN WIDTH
              ELSE IF x1 > WIDTH THEN 0 - PLAYER_W
              ELSE x1
        vy == IF p.jet > 0 THEN JET_VEL ELSE p.vel_y + GRAVITY
        drain == IF p.drain_slow > 0 THEN (PASSIVE_ENERGY_DRAIN * 6) \div 10
                 ELSE PASSIVE_ENERGY_DRAIN
    IN [p EXCEPT
          !.prev_bottom = p.y + PLAYER_H,
          !.vel_x = vx,
          !.x = x2,
          !.vel_y = vy,
          !.jet = IF p.jet > 0 THEN p.jet - 1 ELSE p.jet,
          !.y = p.y + TruncDiv(vy, VEL_UNIT),
          !.energy = clamp(p.energy - drain, 0, MAX_ENERGY),
          !.drain_slow = IF p.drain_slow > 0 THEN p.drain_slow - 1 ELSE 0,
          !.invincible = IF p.invincible > 0 THEN p.invincible - 1 ELSE 0]

\* Player.update(keys, touch_x)
Player_update(p, keys, touch) ==
    LET vx == InputVelX(keys, touch, PLAYER_MOVE_SPEED)
        x1 == p.x + TruncDiv(vx, XVEL_UNIT)
        x2 == IF x1 + PLAYER_W < 0 THEN WIDTH
              ELSE IF x1 > WIDTH THEN 0 - PLAYER_W
              ELSE x1
        vy == IF p.jet > 0 THEN JET_VEL ELSE p.vel_y + GRAVITY
        drain == IF p.drain_slow > 0 THEN (PASSIVE_ENERGY_DRAIN * 6) \div 10
                 ELSE PASSIVE_ENERGY_DRAIN
    IN [p EXCEPT
          !.prev_bottom = p.y + PLAYER_H,
          !.vel_x = vx,
          !.x = x2,
          !.vel_y = vy,
          !.jet = IF p.jet > 0 THEN p.jet - 1 ELSE p.jet,
          !.y = p.y + TruncDiv(vy, VEL_UNIT),
          !.energy = clamp(p.energy - drain, 0, MAX_ENERGY),
          !.drain_slow = IF p.drain_slow > 0 THEN p.drain_slow - 1 ELSE 0,
          !.shield = IF p.shield > 0 THEN p.shield - 1 ELSE 0,
          !.invincible = IF p.invincible > 0 THEN p.invincible - 1 ELSE 0]

\* Player.bounce(speed_factor=sf), power None: vel.y = PLAYER_JUMP_VEL * sf
bounce(p, sf) == [p EXCEPT !.vel_y = (PLAYER_JUMP_VEL \div SPEED_UNIT) * sf]

\* a faulty Player.take_enemy_hit: the shield is tested before invincibility
take_enemy_hit_shield_first(p) ==
    IF p.shield > 0 THEN [p EXCEPT !.shield = 0]
    ELSE IF p.invincible > 0 THEN p
    ELSE [p EXCEPT
            !.energy = clamp(p.energy - ENEMY_HIT_ENERGY_LOSS, 0, MAX_ENERGY),
            !.vel_y = IF p.vel_y < HIT_VEL_CAP THEN HIT_VEL_CAP ELSE p.vel_y]

\* a faulty Player.take_enemy_hit: the loss is not floored at zero
take_enemy_hit_unfloored(p) ==
    IF p.invincible > 0 THEN p
    ELSE IF p.shield > 0 THEN [p EXCEPT !.shield = 0]
    ELSE [p EXCEPT
            !.energy = p.energy - ENEMY_HIT_ENERGY_LOSS,
            !.vel_y = IF p.vel_y < HIT_VEL_CAP THEN HIT_VEL_CAP ELSE p.vel_y]

\* Player.take_enemy_hit
take_enemy_hit(p) ==
    IF p.invincible > 0 THEN p
    ELSE IF p.shield > 0 THEN [p EXCEPT !.shield = 0]
    ELSE [p EXCEPT
            !.energy = clamp(p.energy - ENEMY_HIT_ENERGY_LOSS, 0, MAX_ENERGY),
            !.vel_y = IF p.vel_y < HIT_VEL_CAP THEN HIT_VEL_CAP ELSE p.vel_y]

\* Player.mark_safe_platform
mark_safe_platform(p, plat) == [p EXCEPT !.last_safe_platform = plat.id]

\* Sprite.alive() of the platform with identity id: it is still in a group
alive(plats, id) == \E i \in 1..Len(plats) : plats[i].id = id

PlatformById(plats, id) ==
    plats[CHOOSE i \in 1..Len(plats) : plats[i].id = id]

\* Player.revive_on_safe
revive_on_safe(p, plats) ==
    LET y == IF p.last_safe_platform # NoPlatform /\ alive(plats, p.last_safe_platform)
             THEN PlatformById(plats, p.last_safe_platform).y - PLAYER_H \div 2 - 2
             ELSE HEIGHT \div 2
    IN [p EXCEPT
          !.x = WIDTH \div 2 - PLAYER_W \div 2,
          !.y = y - PLAYER_H \div 2,
          !.vel_x = 0,
          !.vel_y = 0,
          !.energy = Max(REVIVE_ENERGY, p.energy),
          !.invincible = DUR_INVINCIBLE]

\* ---------------------------------------------------------------- sprites
\* Platform.update(moving_speed_factor=sf): phase += 0.02 * sf
Platform_update(q, sf) ==
    IF q.kind = P_MOVING /\ q.active
    THEN LET ph == q.phase + (2 * (PHASE_UNIT \div 100) * sf) \div SPEED_UNIT
         IN [q EXCEPT !.phase = ph,
                      !.x = q.start_x + TruncDiv(Sin1000(ph) * 80, 1000)]
    ELSE q

\* Enemy.update(player, enemy_speed_factor=sf): phase += ENEMY_SINE_SPEED * sf
Enemy_update(e, p, sf) ==
    LET ph == e.phase + (3 * (PHASE_UNIT \div 100) * sf) \div SPEED_UNIT
        s == Sin1000(ph)
        pcx == p.x + PLAYER_W \div 2
        ecx == e.x + ENEMY_SIZE \div 2
        dir == IF pcx > ecx THEN 1 ELSE -1
    IN CASE e.kind = E_BULB ->
              \* int(sin(phase) * ENEMY_PATROL_SPEED * 1.4 * sf)
              [e EXCEPT !.phase = ph,
                        !.x = e.x + TruncDiv(s * 91 * sf, 500 * 100 * SPEED_UNIT)]
         [] e.kind = E_PIPE ->
              \* int(sin(phase * 0.9) * 1.0 * sf)
              [e EXCEPT !.phase = ph,
                        !.y = e.y + TruncDiv(Sin1000((ph * 9) \div 10) * sf,
                                             1000 * SPEED_UNIT)]
         [] e.kind = E_SMOKE ->
              \* int((-0.5 + sin(phase) * 0.25) * sf)
              [e EXCEPT !.phase = ph,
                        !.y = e.y + TruncDiv((s - 2000) * sf, 4000 * SPEED_UNIT)]
         [] OTHER ->
              \* chaser: int(direction * ENEMY_CHASER_SPEED * sf), int(sin * 0.6 * sf)
              [e EXCEPT !.phase = ph,
                        !.x = IF Abs(pcx - ecx) > 4
                              THEN e.x + TruncDiv(dir * 2 * sf, SPEED_UNIT)
                              ELSE e.x,
                        !.y = e.y + TruncDiv(s * 6 * sf, 10 * 1000 * SPEED_UNIT)]

\* Bonus.update: phase += 0.06; rect.y += int(sin(phase) * 0.5)
Bonus_update(b) ==
    LET ph == b.phase + (6 * PHASE_UNIT) \div 100
    IN [b EXCEPT !.phase = ph, !.y = b.y + TruncDiv(Sin1000(ph) * 5, 10 * 1000)]

\* ---------------------------------------------------------------- QuizUI
\* "ans" of the thirty entries of QUIZ
QUIZ_ANS == <<2, 1, 2, 0, 1, 1, 1, 2, 1, 1, 1, 2, 1, 1, 0,
              1, 1, 1, 1, 2, 0, 1, 1, 0, 1, 1, 1, 0, 1, 3>>

\* the feedback texts, transliterated letter by letter from the Cyrillic
FB_NONE == ""
FB_CORRECT == "Verno! +1 zhizn'"
FB_WRONG == "Uvy, neverno."
FB_NEEDLE == "Verno"

\* the characters of the strings above
Chars(str) ==
    CASE str = FB_CORRECT ->
           <<"V", "e", "r", "n", "o", "!", " ", "+", "1", " ",
             "zh", "i", "z", "n", "'">>
      [] str = FB_WRONG ->
           <<"U", "v", "y", ",", " ", "n", "e", "v", "e", "r", "n", "o", ".">>
      [] str = FB_NEEDLE -> <<"V", "e", "r", "n", "o">>
      [] OTHER -> <<>>

\* Python's `needle in text` on strings
StrIn(needle, text) ==
    LET n == Chars(needle)
        t == Chars(text)
    IN \E k \in 0..(Len(t) - Len(n)) :
          \A j \in 1..Len(n) : t[k + j] = n[j]

\* QuizUI.__init__
QuizUI == [selected |-> 0, cur |-> 0, feedback |-> FB_NONE, feedback_timer |-> 0]

\* QuizUI.pick, random.choice(QUIZ) giving entry cur
QuizUI_pick(cur) ==
    [selected |-> 0, cur |-> cur, feedback |-> FB_NONE, feedback_timer |-> 0]

\* int(0.9 * FPS)
FEEDBACK_FRAMES == (9 * FPS) \div 10

\* QuizUI.handle(event)
QuizUI_handle(q, ev) ==
    IF ev.type = "KEYDOWN"
    THEN IF ev.key \in {"UP", "w"} THEN [q EXCEPT !.selected = (q.selected - 1) % 4]
         ELSE IF ev.key \in {"DOWN", "s"} THEN [q EXCEPT !.selected = (q.selected + 1) % 4]
         ELSE IF ev.key \in {"RETURN", "SPACE"}
              THEN [q EXCEPT !.feedback = IF q.selected = QUIZ_ANS[q.cur]
                                          THEN FB_CORRECT ELSE FB_WRONG,
                             !.feedback_timer = FEEDBACK_FRAMES]
              ELSE q
    ELSE q

\* QuizUI.update
QuizUI_update(q) ==
    IF q.feedback_timer > 0 THEN [q EXCEPT !.feedback_timer = q.feedback_timer - 1]
    ELSE q

\* ---------------------------------------------------------------- Game: reset
\* int(ascended_px * 0.06)
ScoreOf(asc) == (asc * 6) \div 100

\* save_scores({"high_score": v}); the storage, an external collaborator, is
\* taken to accept every write
save_scores(g, v) == [g EXCEPT !.scores_file = v]

\* Game.game_over
game_over(g) ==
    LET sc == Max(g.score, ScoreOf(g.ascended_px))
        g1 == [g EXCEPT !.state = STATE_GAMEOVER, !.score = sc]
    IN IF sc > g.high_score
       THEN save_scores([g1 EXCEPT !.high_score = sc], sc)
       ELSE g1

\* the ten ladder platforms of init_run, from the bottom (i = 0) up; offs[i + 1]
\* is random.randint(-90, 90) of step i
RECURSIVE Ladder(_, _, _, _, _)
Ladder(i, prev_x, id, offs, phase) ==
    IF i >= 10 THEN <<>>
    ELSE LET x == clamp(prev_x + offs[i + 1], SPAWN_X_MARGIN,
                        WIDTH - PLATFORM_W - SPAWN_X_MARGIN)
             y == (HEIGHT - 80) - i * 70
         IN <<Platform(id, x, y, IF i > 0 THEN P_NORMAL ELSE P_SOLAR, phase)>>
            \o Ladder(i + 1, x, id + 1, offs, phase)

\* a faulty Game.init_run: the enemies and the bonuses of the last run stay
init_run_keeping_sprites(g, offs, phase) ==
    LET pl == Player(WIDTH \div 2, HEIGHT - 140, 2)
        cx == pl.x + PLAYER_W \div 2
        ladder == Ladder(0, cx - PLATFORM_W \div 2, 1, offs, phase)
        safety == Platform(11, cx - PLATFORM_W \div 2,
                           pl.y + PLAYER_H + 60, P_NORMAL, phase)
    IN [g EXCEPT
          !.platforms = Append(ladder, safety),
          !.world = [spawn_y |-> ladder[10].y, score |-> 0],
          !.score = 0,
          !.ascended_px = 0,
          !.touch_x = NoTouch,
          !.player = pl,
          !.next_id = 12,
          !.obs.reset = TRUE]

\* Game.init_run.  Every group is emptied and the player is a new object, so
\* no reference to an earlier platform is left: identities start again at 1
init_run(g, offs, phase) ==
    LET pl == Player(WIDTH \div 2, HEIGHT - 140, 2)
        cx == pl.x + PLAYER_W \div 2
        ladder == Ladder(0, cx - PLATFORM_W \div 2, 1, offs, phase)
        safety == Platform(11, cx - PLATFORM_W \div 2,
                           pl.y + PLAYER_H + 60, P_NORMAL, phase)
    IN [g EXCEPT
          !.platforms = Append(ladder, safety),
          !.enemies = <<>>,
          !.bonuses = <<>>,
          !.world = [spawn_y |-> ladder[10].y, score |-> 0],
          !.score = 0,
          !.ascended_px = 0,
          !.touch_x = NoTouch,
          !.player = pl,
          !.next_id = 12,
          !.obs.reset = TRUE]

\* ---------------------------------------------------------------- Game: quiz
\* history: one entry for a trigger_quiz call that took g to g2
LogTrigger(g, g2) ==
    [g2 EXCEPT !.obs.trig = Append(@, [before |-> g.player.lives,
                                       after |-> g2.player.lives,
                                       state |-> g2.state,
                                       picked |-> g2.obs.picks > g.obs.picks]),
               !.hist.fired = TRUE,
               !.hist.start = g.obs.lives0,
               !.hist.entry = g2.player.lives]

\* self.quiz.pick(), counted in the history
Game_quiz_pick(g, cur) ==
    [g EXCEPT !.quiz = QuizUI_pick(cur), !.obs.picks = @ + 1]

\* a faulty trigger_quiz: the game is over when no life is left ("<= 0")
trigger_quiz_at_zero(g, cur) ==
    LET g1 == [g EXCEPT !.player.lives = @ - 1]
    IN LogTrigger(g, IF g1.player.lives <= 0
                     THEN game_over(g1)
                     ELSE [Game_quiz_pick(g1, cur) EXCEPT !.state = STATE_QUIZ])

\* Game.trigger_quiz; cur is the entry random.choice(QUIZ) gives
trigger_quiz(g, cur) ==
    LET g1 == [g EXCEPT !.player.lives = @ - 1]
    IN LogTrigger(g, IF g1.player.lives < 0
                     THEN game_over(g1)
                     ELSE [Game_quiz_pick(g1, cur) EXCEPT !.state = STATE_QUIZ])

\* a faulty resolve_quiz_result: the life is refunded before the branch
resolve_quiz_result_refund_first(g, correct) ==
    LET g1 == [g EXCEPT !.player.lives = @ + 1]
    IN IF correct
       THEN [g1 EXCEPT !.player = revive_on_safe(g1.player, g1.platforms),
                       !.state = STATE_PLAY,
                       !.obs.resolved = "correct"]
       ELSE [game_over(g1) EXCEPT !.obs.resolved = "wrong"]

\* Game.resolve_quiz_result(correct)
resolve_quiz_result(g, correct) ==
    IF correct
    THEN [g EXCEPT !.player = revive_on_safe([g.player EXCEPT !.lives = @ + 1],
                                             g.platforms),
                   !.state = STATE_PLAY,
                   !.obs.resolved = "correct"]
    ELSE [game_over(g) EXCEPT !.obs.resolved = "wrong"]

\* ---------------------------------------------------------------- Game: spawning
\* the elements of s whose index is in keep, order kept
RECURSIVE KeepAt(_, _, _)
KeepAt(s, keep, i) ==
    IF i > Len(s) THEN <<>>
    ELSE IF i \in keep THEN <<s[i]>> \o KeepAt(s, keep, i + 1)
         ELSE KeepAt(s, keep, i + 1)

\* sorted(list(platforms), key=top, reverse=True)[MAX_PLATFORMS_ON_SCREEN:] is
\* killed: position of plats[i] in that (stable) order, from 0
SortedPos(plats, i) ==
    Cardinality({j \in 1..Len(plats) :
                    \/ plats[j].y > plats[i].y
                    \/ plats[j].y = plats[i].y /\ j < i})

\* a faulty platform cap: one platform more than the maximum is kept
CapPlatforms_one_more(plats) ==
    IF Len(plats) > MAX_PLATFORMS_ON_SCREEN
    THEN KeepAt(plats, {i \in 1..Len(plats) :
                          SortedPos(plats, i) <= MAX_PLATFORMS_ON_SCREEN}, 1)
    ELSE plats

\* the platform cap at the end of Game.spawn_next
CapPlatforms(plats) ==
    IF Len(plats) > MAX_PLATFORMS_ON_SCREEN
    THEN KeepAt(plats, {i \in 1..Len(plats) :
                          SortedPos(plats, i) < MAX_PLATFORMS_ON_SCREEN}, 1)
    ELSE plats

\* one iteration of the while loop of Game.spawn_next, on the draws d
SpawnOne(g, sf, d) ==
    LET lo == (SPAWN_MIN_GAP * SPEED_UNIT) \div sf
        hi == (SPAWN_MAX_GAP * SPEED_UNIT) \div sf
        gap == lo + ((hi - lo) * d.gap_pct) \div 100
        sy == g.world.spawn_y - gap
        kind == choose_platform_type(g.world, d.kind_r)
        px == (g.player.x + PLAYER_W \div 2) - PLATFORM_W \div 2
        x == clamp(lerp35(d.x, px), SPAWN_X_MARGIN, WIDTH - PLATFORM_W - SPAWN_X_MARGIN)
        plat == Platform(g.next_id, x, sy, kind, d.phase)
        pcx == x + PLATFORM_W \div 2
        spring == IF kind \in {P_NORMAL, P_MOVING} /\ d.spring_r < DRAW_UNIT \div 10
                  THEN <<Bonus(pcx, sy - 16, B_SPRING, d.phase)>> ELSE <<>>
        ek == choose_enemy(g.world, d.e_r1, d.e_r)
        enemy == IF ek # None THEN <<Enemy(pcx + d.e_dx, sy - 28, ek, d.phase)>>
                 ELSE <<>>
        bk == choose_bonus(g.world, d.b_r, d.b_rr)
        bonus == IF bk # None THEN <<Bonus(pcx + d.b_dx, sy - d.b_dy, bk, d.phase)>>
                 ELSE <<>>
    IN [g EXCEPT !.world.spawn_y = sy,
                 !.platforms = Append(@, plat),
                 !.next_id = @ + 1,
                 !.bonuses = @ \o spring \o bonus,
                 !.enemies = @ \o enemy]

\* the while loop of Game.spawn_next; the k-th platform spawned in the tick
\* takes its draws from the tape, cyclically
RECURSIVE SpawnLoop(_, _, _, _)
SpawnLoop(g, sf, tape, k) ==
    IF g.world.spawn_y > -HEIGHT
    THEN SpawnLoop(SpawnOne(g, sf, tape[(k % Len(tape)) + 1]), sf, tape, k + 1)
    ELSE g

\* Game.spawn_next
spawn_next(g, tape) ==
    LET Tops(ps) == {ps[i].y : i \in 1..Len(ps)}
        Ids(ps) == {ps[i].id : i \in 1..Len(ps)}
        Capped(g1, kept) ==
            IF Len(kept) < Len(g1.platforms)
            THEN [g1 EXCEPT !.platforms = kept,
                            !.obs.kept = Tops(kept),
                            !.obs.killed = {g1.platforms[i].y : i \in
                                              {j \in 1..Len(g1.platforms) :
                                                 g1.platforms[j].id \notin Ids(kept)}}]
            ELSE g1
        Cap(g1) == Capped(g1, CapPlatforms(g1.platforms))
    IN Cap(SpawnLoop(g, speed_factor(g.world), tape, 0))

\* ---------------------------------------------------------------- Game: collisions
\* prev_rect.bottom <= p.rect.top and rect.colliderect(p.rect)
Straddle(p, q) ==
    /\ p.prev_bottom <= q.y
    /\ colliderect(p.x, p.y, PLAYER_W, PLAYER_H, q.x, q.y, PLATFORM_W, PLATFORM_H)

\* a faulty handle_platform_effect: the energy gains are added without clamp
handle_platform_effect_unclamped(g0, i) ==
    LET k == g0.platforms[i].kind
        g == [g0 EXCEPT !.obs.effects = Append(@, k)]
    IN CASE k = P_SOLAR -> [g EXCEPT !.player.energy = @ + ENERGY_FROM_SOLAR]
         [] k = P_WIND -> [g EXCEPT !.player.energy = @ + ENERGY_FROM_WIND]
         [] k = P_HYDRO ->
              [g EXCEPT !.player.energy = @ + ENERGY_FROM_HYDRO,
                        !.player.vel_y = (PLAYER_JUMP_VEL * 107) \div 100]
         [] k = P_BREAKING ->
              [g EXCEPT !.platforms[i].active = FALSE, !.platforms[i].fade = 0]
         [] k = P_DISAPPEARING ->
              [g EXCEPT !.platforms[i].active = FALSE,
                        !.platforms[i].fade = (85 * FADE_UNIT) \div 100]
         [] OTHER -> g

\* Game.handle_platform_effect on platforms[i]
handle_platform_effect(g0, i) ==
    LET k == g0.platforms[i].kind
        g == [g0 EXCEPT !.obs.effects = Append(@, k)]
    IN CASE k = P_SOLAR ->
              [g EXCEPT !.player.energy = clamp(@ + ENERGY_FROM_SOLAR, 0, MAX_ENERGY)]
         [] k = P_WIND ->
              [g EXCEPT !.player.energy = clamp(@ + ENERGY_FROM_WIND, 0, MAX_ENERGY)]
         [] k = P_HYDRO ->
              [g EXCEPT !.player.energy = clamp(@ + ENERGY_FROM_HYDRO, 0, MAX_ENERGY),
                        !.player.vel_y = (PLAYER_JUMP_VEL * 107) \div 100]
         [] k = P_BREAKING ->
              [g EXCEPT !.platforms[i].active = FALSE, !.platforms[i].fade = 0]
         [] k = P_DISAPPEARING ->
              [g EXCEPT !.platforms[i].active = FALSE,
                        !.platforms[i].fade = (85 * FADE_UNIT) \div 100]
         [] OTHER -> g

\* the body of the landing branch, on platforms[i]; the landing is entered in
\* the history with the flag the platform had
Land(g, i, sf) ==
    LET q == g.platforms[i]
        p1 == [g.player EXCEPT !.y = q.y - PLAYER_H]
        p2 == mark_safe_platform(bounce(p1, sf), q)
        g1 == [g EXCEPT !.player = p2]
        g2 == handle_platform_effect(g1, i)
    IN [g2 EXCEPT !.obs.landed = Append(@, [id |-> q.id, kind |-> q.kind,
                                            was_active |-> q.active,
                                            vy |-> g2.player.vel_y])]

\* a faulty scan of the platforms, without "if not p.active: continue"
LandingIndex_any(g) ==
    LET hits == {i \in 1..Len(g.platforms) : Straddle(g.player, g.platforms[i])}
    IN IF hits = {} THEN 0 ELSE CHOOSE i \in hits : \A j \in hits : i <= j

\* the scan of the platforms: the first active one that meets the straddle
\* test (0: none)
LandingIndex(g) ==
    LET hits == {i \in 1..Len(g.platforms) :
                    g.platforms[i].active /\ Straddle(g.player, g.platforms[i])}
    IN IF hits = {} THEN 0 ELSE CHOOSE i \in hits : \A j \in hits : i <= j

\* a faulty fade-out: the platform is destroyed once its fade is under one step
FadeOut_one_step_early(plats) ==
    LET Faded(q) == IF q.kind = P_DISAPPEARING /\ ~q.active
                    THEN [q EXCEPT !.fade = Max(0, q.fade - (6 * FADE_UNIT) \div 100)]
                    ELSE q
        after == [i \in 1..Len(plats) |-> Faded(plats[i])]
    IN KeepAt(after, {i \in 1..Len(plats) :
                        ~(after[i].kind = P_DISAPPEARING /\ ~after[i].active
                          /\ after[i].fade < (6 * FADE_UNIT) \div 100)}, 1)

\* "Disappearing platforms fade out": fade -= 0.06, kill at 0
FadeOut(plats) ==
    LET Faded(q) == IF q.kind = P_DISAPPEARING /\ ~q.active
                    THEN [q EXCEPT !.fade = Max(0, q.fade - (6 * FADE_UNIT) \div 100)]
                    ELSE q
        after == [i \in 1..Len(plats) |-> Faded(plats[i])]
    IN KeepAt(after, {i \in 1..Len(plats) :
                        ~(after[i].kind = P_DISAPPEARING /\ ~after[i].active
                          /\ after[i].fade <= 0)}, 1)

\* history: whether the player's rect meets the rect of an active platform
Touching(g) ==
    [g EXCEPT !.obs.touching =
        \E j \in 1..Len(g.platforms) :
           /\ g.platforms[j].active
           /\ colliderect(g.player.x, g.player.y, PLAYER_W, PLAYER_H,
                          g.platforms[j].x, g.platforms[j].y, PLATFORM_W, PLATFORM_H)]

\* a faulty resolve_platform_collisions: it lands on the first active platform
\* the player's rect meets, whatever the direction of the movement
resolve_platform_collisions_on_contact(g0, sf) ==
    LET g == Touching(g0)
        hits == {i \in 1..Len(g.platforms) :
                    /\ g.platforms[i].active
                    /\ colliderect(g.player.x, g.player.y, PLAYER_W, PLAYER_H,
                                   g.platforms[i].x, g.platforms[i].y,
                                   PLATFORM_W, PLATFORM_H)}
        g2 == IF hits = {} THEN g
              ELSE Land(g, CHOOSE i \in hits : \A j \in hits : i <= j, sf)
    IN [g2 EXCEPT !.platforms = FadeOut(@)]

\* a faulty resolve_platform_collisions: the scan goes on after a landing
resolve_platform_collisions_without_break(g0, sf) ==
    LET g == Touching(g0)
        RECURSIVE Scan(_, _)
        Scan(h, i) ==
            IF i > Len(h.platforms) THEN h
            ELSE IF h.platforms[i].active /\ Straddle(h.player, h.platforms[i])
                 THEN Scan(Land(h, i, sf), i + 1)
                 ELSE Scan(h, i + 1)
    IN IF g.player.vel_y <= 0 THEN g
       ELSE [Scan(g, 1) EXCEPT !.platforms = FadeOut(@)]

\* Game.resolve_platform_collisions(speed_factor)
resolve_platform_collisions(g0, sf) ==
    LET g == Touching(g0)
    IN IF g.player.vel_y <= 0 THEN g
       ELSE LET i == LandingIndex(g)
                seen == \E j \in 1..Len(g.platforms) :
                           ~g.platforms[j].active /\ Straddle(g.player, g.platforms[j])
                g1 == [g EXCEPT !.obs.inactive_hit = seen]
                g2 == IF i > 0 THEN Land(g1, i, sf) ELSE g1
            IN [g2 EXCEPT !.platforms = FadeOut(@)]

\* Game.resolve_enemy_collisions from enemy i on; nudge is
\* random.choice([-10, 10]), cur the question a trigger_quiz picks
RECURSIVE EnemyLoop(_, _, _, _, _)
EnemyLoop(g, i, sf, nudge, cur) ==
    IF i > Len(g.enemies) THEN g
    ELSE LET e == Enemy_update(g.enemies[i], g.player, sf)
             hit == colliderect(g.player.x, g.player.y, PLAYER_W, PLAYER_H,
                                e.x, e.y, ENEMY_SIZE, ENEMY_SIZE)
             g1 == IF hit
                   THEN [g EXCEPT !.enemies[i] = [e EXCEPT !.x = @ + nudge],
                                  !.player = take_enemy_hit(@),
                                  !.obs.hits = @ + 1]
                   ELSE [g EXCEPT !.enemies[i] = e]
             g2 == IF hit /\ g1.player.energy <= 0 THEN trigger_quiz(g1, cur) ELSE g1
             g3 == IF hit
                   THEN [g2 EXCEPT !.obs.hitlog = Append(@,
                           [before |-> g.player, after |-> g1.player,
                            fired |-> Len(g2.obs.trig) - Len(g.obs.trig),
                            phase |-> g2.state])]
                   ELSE g2
         IN EnemyLoop(g3, i + 1, sf, nudge, cur)

resolve_enemy_collisions(g, sf, nudge, cur) == EnemyLoop(g, 1, sf, nudge, cur)

\* Game.apply_bonus, on the player
apply_bonus(p, kind) ==
    CASE kind = B_CELL -> [p EXCEPT !.energy = clamp(@ + ENERGY_FROM_CELL, 0, MAX_ENERGY)]
      [] kind = B_LED -> [p EXCEPT !.drain_slow = DUR_LED]
      [] kind = B_SHIELD -> [p EXCEPT !.shield = DUR_SHIELD]
      [] kind = B_JET -> [p EXCEPT !.jet = DUR_JET]
      [] OTHER -> [p EXCEPT !.vel_y = (PLAYER_JUMP_VEL * 155) \div 100]

\* Game.resolve_bonus_pickups from bonus i on (of the list copied at the start)
RECURSIVE BonusLoop(_, _, _)
BonusLoop(p, bs, i) ==
    IF i > Len(bs) THEN [player |-> p, kept |-> <<>>]
    ELSE LET b == Bonus_update(bs[i])
             hit == colliderect(p.x, p.y, PLAYER_W, PLAYER_H,
                                b.x, b.y, BONUS_SIZE, BONUS_SIZE)
             rest == BonusLoop(IF hit THEN apply_bonus(p, b.kind) ELSE p, bs, i + 1)
         IN [rest EXCEPT !.kept = IF hit THEN @ ELSE <<b>> \o @]

resolve_bonus_pickups(g) ==
    LET r == BonusLoop(g.player, g.bonuses, 1)
    IN [g EXCEPT !.player = r.player, !.bonuses = r.kept]

\* ---------------------------------------------------------------- Game: update
\* a faulty "Camera": the spawn frontier is left where it was
Camera_leaving_frontier(g) ==
    IF g.player.y <= SCROLL_TRIGGER_Y
    THEN LET dy == SCROLL_TRIGGER_Y - g.player.y
             Shift(ss) == [i \in 1..Len(ss) |-> [ss[i] EXCEPT !.y = @ + dy]]
         IN [g EXCEPT !.player.y = SCROLL_TRIGGER_Y,
                      !.platforms = Shift(@),
                      !.enemies = Shift(@),
                      !.bonuses = Shift(@),
                      !.ascended_px = @ + dy]
    ELSE g

\* "Camera": hold the player at the trigger line and shift the world down
Camera(g) ==
    IF g.player.y <= SCROLL_TRIGGER_Y
    THEN LET dy == SCROLL_TRIGGER_Y - g.player.y
             Shift(ss) == [i \in 1..Len(ss) |-> [ss[i] EXCEPT !.y = @ + dy]]
         IN [g EXCEPT !.player.y = SCROLL_TRIGGER_Y,
                      !.platforms = Shift(@),
                      !.enemies = Shift(@),
                      !.bonuses = Shift(@),
                      !.world.spawn_y = @ + dy,
                      !.ascended_px = @ + dy]
    ELSE g

\* "Cleanup": kill every sprite whose top is below HEIGHT + 120
Cleanup(g) ==
    LET OnScreen(s) == ~(s.y > HEIGHT + 120)
    IN [g EXCEPT !.platforms = SelectSeq(@, OnScreen),
                 !.enemies = SelectSeq(@, OnScreen),
                 !.bonuses = SelectSeq(@, OnScreen)]

\* a faulty "Fall": the life is taken and the energy is left as it is
FallCheck_keeping_energy(g, cur) ==
    IF g.player.y > HEIGHT + 60 THEN trigger_quiz(g, cur) ELSE g

\* "Fall": the player's top is below HEIGHT + 60
FallCheck(g, cur) ==
    IF g.player.y > HEIGHT + 60
    THEN trigger_quiz([g EXCEPT !.player.energy = 0], cur)
    ELSE g

\* a faulty "Score": the score follows the height of the player, without max
ScoreUpdate_by_height(g) ==
    LET sc == ScoreOf(Max(0, g.ascended_px + SCROLL_TRIGGER_Y - g.player.y))
        g1 == [g EXCEPT !.score = sc, !.player.score = sc]
    IN IF sc > g.high_score
       THEN save_scores([g1 EXCEPT !.high_score = sc], sc)
       ELSE g1

\* a faulty "Score": the high score is kept in memory and not written
ScoreUpdate_unsaved(g) ==
    LET sc == Max(g.score, ScoreOf(g.ascended_px))
        g1 == [g EXCEPT !.score = sc, !.player.score = sc]
    IN IF sc > g.high_score THEN [g1 EXCEPT !.high_score = sc] ELSE g1

\* "Score": score, player.score, and the high score written on change
ScoreUpdate(g) ==
    LET sc == Max(g.score, ScoreOf(g.ascended_px))
        g1 == [g EXCEPT !.score = sc, !.player.score = sc]
    IN IF sc > g.high_score
       THEN save_scores([g1 EXCEPT !.high_score = sc], sc)
       ELSE g1

\* Game.update in STATE_PLAY
UpdatePlay(g, keys, tape, nudge, cur) ==
    LET w == [g.world EXCEPT !.score = g.score]
        sf == speed_factor(w)
        \* vel.y += GRAVITY * (speed_factor - 1.0)
        p1 == [g.player EXCEPT
                 !.vel_y = @ + (GRAVITY * (sf - SPEED_UNIT)) \div SPEED_UNIT]
        p2 == Player_update(p1, keys, g.touch_x)
        \* vel.x = +-PLAYER_MOVE_SPEED_CURRENT when a direction is given
        p3 == IF g.touch_x # NoTouch \/ keys \in {"left", "right"}
              THEN [p2 EXCEPT !.vel_x = InputVelX(keys, g.touch_x,
                                  (PLAYER_MOVE_SPEED \div SPEED_UNIT) * sf)]
              ELSE p2
        gA == [g EXCEPT !.world = w,
                        !.platforms = [i \in 1..Len(g.platforms) |->
                                          Platform_update(g.platforms[i], sf)],
                        !.player = p3,
                        !.obs.vy = p3.vel_y,
                        !.obs.p1 = p2,
                        !.obs.pf = progress_factor(w),
                        !.obs.sf = sf]
        Ys(ss) == [i \in 1..Len(ss) |-> ss[i].y]
        View(h) == [top |-> h.player.y, platforms |-> Ys(h.platforms),
                    enemies |-> Ys(h.enemies), bonuses |-> Ys(h.bonuses),
                    spawn_y |-> h.world.spawn_y, ascended_px |-> h.ascended_px]
        Scrolled(h) == LET h1 == Camera(h)
                       IN [h1 EXCEPT !.obs.top = h1.player.y,
                                     !.obs.cam0 = View(h), !.obs.cam1 = View(h1)]
        gB == Scrolled(gA)
        gC == spawn_next(gB, tape)
        gD == resolve_platform_collisions(gC, sf)
        gE == resolve_enemy_collisions(gD, sf, nudge, cur)
        gF == resolve_bonus_pickups(gE)
        gG == Cleanup(gF)
        gH == FallCheck(gG, cur)
        gI == ScoreUpdate(gH)
    IN [gI EXCEPT !.touch_x = NoTouch]

\* a faulty Game.update in STATE_QUIZ: the answer is resolved in the first tick
\* that finds a feedback, whatever is left of the window
UpdateQuiz_at_once(g) ==
    LET g1 == [g EXCEPT !.quiz = QuizUI_update(@)]
    IN IF g1.quiz.feedback # FB_NONE
       THEN resolve_quiz_result(g1, StrIn(FB_NEEDLE, g1.quiz.feedback))
       ELSE g1

\* Game.update in STATE_QUIZ
UpdateQuiz(g) ==
    LET g1 == [g EXCEPT !.quiz = QuizUI_update(@)]
    IN IF g1.quiz.feedback # FB_NONE /\ g1.quiz.feedback_timer = 0
       THEN resolve_quiz_result(g1, StrIn(FB_NEEDLE, g1.quiz.feedback))
       ELSE g1

\* a faulty Game.update: the timers of the player run on in STATE_PAUSE
update_timing_in_pause(g, keys, tape, nudge, cur) ==
    CASE g.state = STATE_PLAY -> UpdatePlay(g, keys, tape, nudge, cur)
      [] g.state = STATE_QUIZ -> UpdateQuiz(g)
      [] g.state = STATE_PAUSE ->
            [g EXCEPT !.player.drain_slow = Max(0, @ - 1),
                      !.player.shield = Max(0, @ - 1),
                      !.player.jet = Max(0, @ - 1),
                      !.player.invincible = Max(0, @ - 1)]
      [] OTHER -> g

\* Game.update(keys)
update(g, keys, tape, nudge, cur) ==
    CASE g.state = STATE_PLAY -> UpdatePlay(g, keys, tape, nudge, cur)
      [] g.state = STATE_QUIZ -> UpdateQuiz(g)
      [] OTHER -> g

\* ---------------------------------------------------------------- Game: events
\* a faulty event loop body: K_ESCAPE pauses the quiz as it pauses the play
handle_event_pausing_quiz(g, ev, offs, phase) ==
    LET g1 == IF ev.type = "MOUSEBUTTONDOWN" \/ (ev.type = "MOUSEMOTION" /\ ev.pressed)
              THEN [g EXCEPT !.touch_x = ev.x] ELSE g
    IN CASE g1.state = STATE_MENU ->
              IF ev.type = "KEYDOWN"
              THEN IF ev.key \in {"RETURN", "SPACE"} THEN [g1 EXCEPT !.state = STATE_PLAY]
                   ELSE g1
              ELSE IF ev.type = "MOUSEBUTTONDOWN" THEN [g1 EXCEPT !.state = STATE_PLAY]
              ELSE g1
         [] g1.state \in {STATE_PLAY, STATE_QUIZ}
            /\ ev.type = "KEYDOWN" /\ ev.key = "ESCAPE" ->
              [g1 EXCEPT !.state = STATE_PAUSE]
         [] g1.state = STATE_PLAY -> g1
         [] g1.state = STATE_PAUSE ->
              IF ev.type = "KEYDOWN"
              THEN IF ev.key \in {"ESCAPE", "p", "SPACE"} THEN [g1 EXCEPT !.state = STATE_PLAY]
                   ELSE IF ev.key = "q"
                        THEN init_run([g1 EXCEPT !.state = STATE_MENU], offs, phase)
                        ELSE g1
              ELSE IF ev.type = "MOUSEBUTTONDOWN" THEN [g1 EXCEPT !.state = STATE_PLAY]
              ELSE g1
         [] g1.state = STATE_QUIZ ->
              [g1 EXCEPT !.quiz = QuizUI_handle(@, ev)]
         [] OTHER ->
              IF (ev.type = "KEYDOWN" /\ ev.key \in {"RETURN", "SPACE"})
                 \/ ev.type = "MOUSEBUTTONDOWN"
              THEN init_run([g1 EXCEPT !.state = STATE_MENU], offs, phase)
              ELSE g1

\* the body of the event loop of Game.handle_events for one event; offs and
\* phase are the draws of an init_run.  pygame.QUIT, and K_ESCAPE in the menu,
\* call Game.quit, which ends the process: the behaviour ends there, and no
\* step is taken.
handle_event(g, ev, offs, phase) ==
    LET g1 == IF ev.type = "MOUSEBUTTONDOWN" \/ (ev.type = "MOUSEMOTION" /\ ev.pressed)
              THEN [g EXCEPT !.touch_x = ev.x] ELSE g
    IN CASE g1.state = STATE_MENU ->
              IF ev.type = "KEYDOWN"
              THEN IF ev.key \in {"RETURN", "SPACE"} THEN [g1 EXCEPT !.state = STATE_PLAY]
                   ELSE g1
              ELSE IF ev.type = "MOUSEBUTTONDOWN" THEN [g1 EXCEPT !.state = STATE_PLAY]
              ELSE g1
         [] g1.state = STATE_PLAY ->
              IF ev.type = "KEYDOWN" /\ ev.key = "ESCAPE"
              THEN [g1 EXCEPT !.state = STATE_PAUSE] ELSE g1
         [] g1.state = STATE_PAUSE ->
              IF ev.type = "KEYDOWN"
              THEN IF ev.key \in {"ESCAPE", "p", "SPACE"} THEN [g1 EXCEPT !.state = STATE_PLAY]
                   ELSE IF ev.key = "q"
                        THEN init_run([g1 EXCEPT !.state = STATE_MENU], offs, phase)
                        ELSE g1
              ELSE IF ev.type = "MOUSEBUTTONDOWN" THEN [g1 EXCEPT !.state = STATE_PLAY]
              ELSE g1
         [] g1.state = STATE_QUIZ ->
              [g1 EXCEPT !.quiz = QuizUI_handle(@, ev)]
         [] OTHER ->
              \* STATE_GAMEOVER
              IF (ev.type = "KEYDOWN" /\ ev.key \in {"RETURN", "SPACE"})
                 \/ ev.type = "MOUSEBUTTONDOWN"
              THEN init_run([g1 EXCEPT !.state = STATE_MENU], offs, phase)
              ELSE g1

\* ---------------------------------------------------------------- inputs
\* keys of pygame.key.get_pressed(): left is K_LEFT or K_a, right K_RIGHT or K_d
Keys == {"none", "left", "right"}
KeyNames == {"RETURN", "SPACE", "ESCAPE", "p", "q", "UP", "DOWN"}
TouchXs == {100, 400}
Event(type, key, x, pressed) == [type |-> type, key |-> key, x |-> x, pressed |-> pressed]

\* random.randint(-90, 90) of the ten ladder steps of init_run
DefaultLadder == <<0, 0, 0, 0, 0, 0, 0, 0, 0, 0>>
LadderDraws == {DefaultLadder,
                <<90, -90, 90, -90, 90, -90, 90, -90, 90, -90>>}
\* random.random() * 10 (Platform.phase), random.random() * 6.28 (others)
PhaseDraws == {0}
\* random.choice(QUIZ): entries with "ans" 2 and 0
DefaultQuiz == 1
QuizDraws == {DefaultQuiz, 4}
\* random.choice([-10, 10])
DefaultNudge == 10
NudgeDraws == {-10, DefaultNudge}

\* the draws of one iteration of the loop of spawn_next
Draw(gap_pct, kind_r, x, spring_r, e_r1, e_r, e_dx, b_r, b_rr, b_dx, b_dy) ==
    [gap_pct |-> gap_pct, kind_r |-> kind_r, x |-> x, spring_r |-> spring_r,
     e_r1 |-> e_r1, e_r |-> e_r, e_dx |-> e_dx,
     b_r |-> b_r, b_rr |-> b_rr, b_dx |-> b_dx, b_dy |-> b_dy, phase |-> 0]

DefaultTape ==
    <<Draw(0, 10000, 24, 50000, 50000, 0, 0, 50000, 0, 0, 20),
      Draw(100, 70000, 332, 5000, 1000, 50000, 70, 50000, 0, 0, 20),
      Draw(50, 90000, 200, 50000, 50000, 0, 0, 1000, 70000, -28, 40)>>
SpawnTapes ==
    {DefaultTape,
     <<Draw(0, 99000, 332, 50000, 1000, 90000, -70, 1000, 95000, 28, 30),
       Draw(100, 50000, 24, 50000, 1000, 80000, 0, 1000, 90000, 0, 20)>>}

\* ---------------------------------------------------------------- runs in progress
\* States of Game in the middle of a run, each the outcome of the history of
\* keys and draws its comment gives.  The behaviours start from the constructed
\* game and from these, so that MaxPlayTicks ticks reach a landing, a scroll, a
\* broken platform, an enemy and the bottom of the screen.
\* a run of the constructed game (ladder offsets 0) after eleven PLAY ticks, no
\* key held: the player is falling to the solar platform it started above
RunFirstFall ==
    [state |-> STATE_PLAY,
     player |-> [x |-> 205, y |-> 585, prev_bottom |-> 630, vel_x |-> 0, vel_y |-> 88000,
                 energy |-> 994720, lives |-> 2, score |-> 0, drain_slow |-> 0,
                 shield |-> 0, jet |-> 0, invincible |-> 0, last_safe_platform |-> 0],
     platforms |->
        <<Platform(1, 178, 640, P_SOLAR, 0), Platform(2, 178, 570, P_NORMAL, 0),
          Platform(3, 178, 500, P_NORMAL, 0), Platform(4, 178, 430, P_NORMAL, 0),
          Platform(5, 178, 360, P_NORMAL, 0), Platform(6, 178, 290, P_NORMAL, 0),
          Platform(7, 178, 220, P_NORMAL, 0), Platform(8, 178, 150, P_NORMAL, 0),
          Platform(9, 178, 80, P_NORMAL, 0), Platform(10, 178, 10, P_NORMAL, 0),
          Platform(11, 178, 665, P_NORMAL, 0), Platform(12, 178, -80, P_BREAKING, 0),
          Platform(13, 278, -250, P_NORMAL, 0), Platform(14, 278, -420, P_NORMAL, 0),
          Platform(15, 278, -590, P_NORMAL, 0), Platform(16, 278, -760, P_NORMAL, 0)>>,
     enemies |-> <<>>,
     bonuses |-> <<>>,
     world |-> [spawn_y |-> -760, score |-> 0],
     score |-> 0, high_score |-> 0, scores_file |-> 0, ascended_px |-> 0,
     quiz |-> [selected |-> 0, cur |-> 0, feedback |-> FB_NONE, feedback_timer |-> 0],
     touch_x |-> NoTouch, next_id |-> 17]

\* the same run after 76 ticks: the player has bounced twice and is rising at
\* the scroll line; the score is about to leave 0
RunFirstScroll ==
    [state |-> STATE_PLAY,
     player |-> [x |-> 205, y |-> 288, prev_bottom |-> 338, vel_x |-> 0, vel_y |-> -48000,
                 energy |-> 969280, lives |-> 2, score |-> 0, drain_slow |-> 0,
                 shield |-> 0, jet |-> 0, invincible |-> 0, last_safe_platform |-> 3],
     platforms |->
        <<Platform(1, 178, 654, P_SOLAR, 0), Platform(2, 178, 584, P_NORMAL, 0),
          Platform(3, 178, 514, P_NORMAL, 0), Platform(4, 178, 444, P_NORMAL, 0),
          Platform(5, 178, 374, P_NORMAL, 0), Platform(6, 178, 304, P_NORMAL, 0),
          Platform(7, 178, 234, P_NORMAL, 0), Platform(8, 178, 164, P_NORMAL, 0),
          Platform(9, 178, 94, P_NORMAL, 0), Platform(10, 178, 24, P_NORMAL, 0),
          Platform(11, 178, 679, P_NORMAL, 0), Platform(12, 178, -66, P_BREAKING, 0),
          Platform(13, 278, -236, P_NORMAL, 0), Platform(14, 278, -406, P_NORMAL, 0),
          Platform(15, 278, -576, P_NORMAL, 0), Platform(16, 278, -746, P_NORMAL, 0)>>,
     enemies |-> <<>>,
     bonuses |-> <<>>,
     world |-> [spawn_y |-> -746, score |-> 0],
     score |-> 0, high_score |-> 0, scores_file |-> 0, ascended_px |-> 14,
     quiz |-> [selected |-> 0, cur |-> 0, feedback |-> FB_NONE, feedback_timer |-> 0],
     touch_x |-> NoTouch, next_id |-> 17]

\* the same run after 212 ticks, the first platform spawned being a breaking
\* one in the player's column and the later ones to the side: the player is
\* falling onto the breaking platform
RunBeforeBreaking ==
    [state |-> STATE_PLAY,
     player |-> [x |-> 205, y |-> 304, prev_bottom |-> 350, vel_x |-> 0, vel_y |-> 64359,
                 energy |-> 904000, lives |-> 2, score |-> 26, drain_slow |-> 0,
                 shield |-> 0, jet |-> 0, invincible |-> 0, last_safe_platform |-> 9],
     platforms |->
        <<Platform(5, 178, 798, P_NORMAL, 0), Platform(6, 178, 728, P_NORMAL, 0),
          Platform(7, 178, 658, P_NORMAL, 0), Platform(8, 178, 588, P_NORMAL, 0),
          Platform(9, 178, 518, P_NORMAL, 0), Platform(10, 178, 448, P_NORMAL, 0),
          Platform(12, 178, 358, P_BREAKING, 0), Platform(13, 278, 188, P_NORMAL, 0),
          Platform(14, 278, 18, P_NORMAL, 0), Platform(15, 278, -152, P_NORMAL, 0),
          Platform(16, 278, -322, P_NORMAL, 0), Platform(17, 278, -491, P_NORMAL, 0),
          Platform(18, 278, -660, P_NORMAL, 0), Platform(19, 278, -829, P_NORMAL, 0)>>,
     enemies |-> <<>>,
     bonuses |-> <<>>,
     world |-> [spawn_y |-> -829, score |-> 26],
     score |-> 26, high_score |-> 26, scores_file |-> 26, ascended_px |-> 438,
     quiz |-> [selected |-> 0, cur |-> 0, feedback |-> FB_NONE, feedback_timer |-> 0],
     touch_x |-> NoTouch, next_id |-> 20]

\* the same run after 267 ticks: the breaking platform has been used, and the
\* player is falling back onto it
RunAboveBroken ==
    [state |-> STATE_PLAY,
     player |-> [x |-> 205, y |-> 444, prev_bottom |-> 482, vel_x |-> 0, vel_y |-> 201039,
                 energy |-> 877600, lives |-> 2, score |-> 35, drain_slow |-> 0,
                 shield |-> 0, jet |-> 0, invincible |-> 0, last_safe_platform |-> 12],
     platforms |->
        <<Platform(7, 178, 818, P_NORMAL, 0), Platform(8, 178, 748, P_NORMAL, 0),
          Platform(9, 178, 678, P_NORMAL, 0), Platform(10, 178, 608, P_NORMAL, 0),
          [Platform(12, 178, 518, P_BREAKING, 0) EXCEPT !.active = FALSE, !.fade = 0],
          Platform(13, 278, 348, P_NORMAL, 0), Platform(14, 278, 178, P_NORMAL, 0),
          Platform(15, 278, 8, P_NORMAL, 0), Platform(16, 278, -162, P_NORMAL, 0),
          Platform(17, 278, -331, P_NORMAL, 0), Platform(18, 278, -500, P_NORMAL, 0),
          Platform(19, 278, -669, P_NORMAL, 0), Platform(20, 278, -838, P_NORMAL, 0)>>,
     enemies |-> <<>>,
     bonuses |-> <<>>,
     world |-> [spawn_y |-> -838, score |-> 35],
     score |-> 35, high_score |-> 35, scores_file |-> 35, ascended_px |-> 598,
     quiz |-> [selected |-> 0, cur |-> 0, feedback |-> FB_NONE, feedback_timer |-> 0],
     touch_x |-> NoTouch, next_id |-> 21]

\* a long run of a game whose stored high score was 5000 (18233 ticks, every
\* platform normal and in one column, no bonus taken, so that the energy
\* has drained to 0): the score is above 4000, the player has stepped
\* off the column and is falling past the bottom of the screen beside
\* two smoke enemies
RunLateFallOneEnemy ==
    [state |-> STATE_PLAY,
     player |-> [x |-> 319, y |-> 774, prev_bottom |-> 797, vel_x |-> 0, vel_y |-> 432000,
                 energy |-> 0, lives |-> 2, score |-> 4109, drain_slow |-> 0,
                 shield |-> 0, jet |-> 0, invincible |-> 0, last_safe_platform |-> 513],
     platforms |->
        <<Platform(510, 178, 822, P_NORMAL, 0), Platform(511, 178, 752, P_NORMAL, 0),
          Platform(512, 178, 671, P_NORMAL, 0), Platform(513, 178, 611, P_NORMAL, 0),
          Platform(514, 178, 498, P_NORMAL, 0), Platform(515, 178, 407, P_NORMAL, 0),
          Platform(516, 178, 316, P_NORMAL, 0), Platform(517, 178, 246, P_NORMAL, 0),
          Platform(518, 178, 186, P_NORMAL, 0), Platform(519, 178, 126, P_NORMAL, 0),
          Platform(520, 178, 66, P_NORMAL, 0), Platform(521, 178, -25, P_NORMAL, 0),
          Platform(522, 178, -127, P_NORMAL, 0), Platform(523, 178, -208, P_NORMAL, 0),
          Platform(524, 178, -268, P_NORMAL, 0), Platform(525, 178, -338, P_NORMAL, 0),
          Platform(526, 178, -440, P_NORMAL, 0), Platform(527, 186, -542, P_NORMAL, 0),
          Platform(528, 215, -623, P_NORMAL, 0), Platform(529, 217, -704, P_NORMAL, 0),
          Platform(530, 217, -774, P_NORMAL, 0)>>,
     enemies |-> <<[x |-> 282, y |-> 766, kind |-> E_SMOKE, phase |-> 11628000],
                   [x |-> 282, y |-> 706, kind |-> E_SMOKE, phase |-> 10512000]>>,
     bonuses |-> <<>>,
     world |-> [spawn_y |-> -774, score |-> 4109],
     score |-> 4109, high_score |-> 5000, scores_file |-> 5000, ascended_px |-> 68484,
     quiz |-> [selected |-> 0, cur |-> 0, feedback |-> FB_NONE, feedback_timer |-> 0],
     touch_x |-> NoTouch, next_id |-> 531]

\* the same run 1512 ticks later: from the state above the player moved left
\* into the lower enemy while falling off (two losses in one tick), the
\* question was answered correctly, and the player has climbed on until
\* the energy drained again; it is falling beside two smoke enemies
RunLateFallTwoEnemies ==
    [state |-> STATE_PLAY,
     player |-> [x |-> 319, y |-> 774, prev_bottom |-> 797, vel_x |-> 0, vel_y |-> 432000,
                 energy |-> 0, lives |-> 1, score |-> 4591, drain_slow |-> 0,
                 shield |-> 0, jet |-> 0, invincible |-> 0, last_safe_platform |-> 590],
     platforms |->
        <<Platform(588, 178, 815, P_NORMAL, 0), Platform(589, 178, 713, P_NORMAL, 0),
          Platform(590, 178, 611, P_NORMAL, 0), Platform(591, 178, 541, P_NORMAL, 0),
          Platform(592, 178, 460, P_NORMAL, 0), Platform(593, 178, 358, P_NORMAL, 0),
          Platform(594, 178, 267, P_NORMAL, 0), Platform(595, 178, 154, P_NORMAL, 0),
          Platform(596, 178, 52, P_NORMAL, 0), Platform(597, 178, -8, P_NORMAL, 0),
          Platform(598, 178, -110, P_NORMAL, 0), Platform(599, 178, -170, P_NORMAL, 0),
          Platform(600, 178, -261, P_NORMAL, 0), Platform(601, 178, -342, P_NORMAL, 0),
          Platform(602, 178, -444, P_NORMAL, 0), Platform(603, 178, -514, P_NORMAL, 0),
          Platform(604, 178, -584, P_NORMAL, 0), Platform(605, 217, -697, P_NORMAL, 0),
          Platform(606, 217, -788, P_NORMAL, 0)>>,
     enemies |-> <<[x |-> 282, y |-> 829, kind |-> E_SMOKE, phase |-> 12276000],
                   [x |-> 282, y |-> 769, kind |-> E_SMOKE, phase |-> 11988000]>>,
     bonuses |-> <<>>,
     world |-> [spawn_y |-> -788, score |-> 4591],
     score |-> 4591, high_score |-> 5000, scores_file |-> 5000, ascended_px |-> 76531,
     quiz |-> [selected |-> 2, cur |-> 1, feedback |-> FB_CORRECT, feedback_timer |-> 0],
     touch_x |-> NoTouch, next_id |-> 607]

\* a run of the constructed game after 276 ticks, no key held, the platforms
\* spawned in the player's column, one with a shield bonus the player took
\* and the next with a smoke enemy above it: the player, shielded, is
\* falling into the enemy
RunShieldedHit ==
    [state |-> STATE_PLAY,
     player |-> [x |-> 205, y |-> 288, prev_bottom |-> 338, vel_x |-> 0, vel_y |-> -168628,
                 energy |-> 873280, lives |-> 2, score |-> 32, drain_slow |-> 0,
                 shield |-> 640, jet |-> 0, invincible |-> 0, last_safe_platform |-> 12],
     platforms |->
        <<Platform(6, 178, 830, P_NORMAL, 0), Platform(7, 178, 760, P_NORMAL, 0),
          Platform(8, 178, 690, P_NORMAL, 0), Platform(9, 178, 620, P_NORMAL, 0),
          Platform(10, 178, 550, P_NORMAL, 0), Platform(12, 178, 420, P_NORMAL, 0),
          Platform(13, 178, 290, P_NORMAL, 0), Platform(14, 178, 160, P_NORMAL, 0),
          Platform(15, 178, 30, P_NORMAL, 0), Platform(16, 178, -100, P_NORMAL, 0),
          Platform(17, 178, -230, P_NORMAL, 0), Platform(18, 178, -359, P_NORMAL, 0),
          Platform(19, 178, -488, P_NORMAL, 0), Platform(20, 178, -617, P_NORMAL, 0),
          Platform(21, 178, -746, P_NORMAL, 0)>>,
     enemies |-> <<[x |-> 212, y |-> 244, kind |-> E_SMOKE, phase |-> 6634587]>>,
     bonuses |-> <<>>,
     world |-> [spawn_y |-> -746, score |-> 31],
     score |-> 32, high_score |-> 32, scores_file |-> 32, ascended_px |-> 540,
     quiz |-> [selected |-> 0, cur |-> 0, feedback |-> FB_NONE, feedback_timer |-> 0],
     touch_x |-> NoTouch, next_id |-> 22]

\* the same run four ticks later: the first contact took the shield, the next
\* three took energy, and the player is still inside the enemy with less
\* energy than one more hit takes
RunLastHit ==
    [state |-> STATE_PLAY,
     player |-> [x |-> 205, y |-> 288, prev_bottom |-> 338, vel_x |-> 0, vel_y |-> -111934,
                 energy |-> 211360, lives |-> 2, score |-> 34, drain_slow |-> 0,
                 shield |-> 0, jet |-> 0, invincible |-> 0, last_safe_platform |-> 12],
     platforms |->
        <<Platform(7, 178, 792, P_NORMAL, 0), Platform(8, 178, 722, P_NORMAL, 0),
          Platform(9, 178, 652, P_NORMAL, 0), Platform(10, 178, 582, P_NORMAL, 0),
          Platform(12, 178, 452, P_NORMAL, 0), Platform(13, 178, 322, P_NORMAL, 0),
          Platform(14, 178, 192, P_NORMAL, 0), Platform(15, 178, 62, P_NORMAL, 0),
          Platform(16, 178, -68, P_NORMAL, 0), Platform(17, 178, -198, P_NORMAL, 0),
          Platform(18, 178, -327, P_NORMAL, 0), Platform(19, 178, -456, P_NORMAL, 0),
          Platform(20, 178, -585, P_NORMAL, 0), Platform(21, 178, -714, P_NORMAL, 0),
          Platform(22, 178, -843, P_NORMAL, 0)>>,
     enemies |-> <<[x |-> 252, y |-> 276, kind |-> E_SMOKE, phase |-> 6730980]>>,
     bonuses |-> <<>>,
     world |-> [spawn_y |-> -843, score |-> 33],
     score |-> 34, high_score |-> 34, scores_file |-> 34, ascended_px |-> 572,
     quiz |-> [selected |-> 0, cur |-> 0, feedback |-> FB_NONE, feedback_timer |-> 0],
     touch_x |-> NoTouch, next_id |-> 23]

\* a run like the one above after 384 ticks, in which the player, shielded,
\* stepped off the column past the enemy: it is falling off the screen with
\* 532 ticks of shield left, and the enemy sits where a revived player is
\* put
RunShieldedFall ==
    [state |-> STATE_PLAY,
     player |-> [x |-> 289, y |-> 772, prev_bottom |-> 800, vel_x |-> 0, vel_y |-> 354145,
                 energy |-> 821440, lives |-> 2, score |-> 46, drain_slow |-> 0,
                 shield |-> 532, jet |-> 0, invincible |-> 0, last_safe_platform |-> 13],
     platforms |->
        <<Platform(10, 178, 779, P_NORMAL, 0), Platform(12, 180, 649, P_NORMAL, 0),
          Platform(13, 180, 519, P_NORMAL, 0), Platform(14, 180, 389, P_NORMAL, 0),
          Platform(15, 180, 259, P_NORMAL, 0), Platform(16, 180, 129, P_NORMAL, 0),
          Platform(17, 180, -1, P_NORMAL, 0), Platform(18, 196, -130, P_NORMAL, 0),
          Platform(19, 196, -259, P_NORMAL, 0), Platform(20, 196, -388, P_NORMAL, 0),
          Platform(21, 196, -517, P_NORMAL, 0), Platform(22, 196, -646, P_NORMAL, 0),
          Platform(23, 207, -775, P_NORMAL, 0)>>,
     enemies |-> <<[x |-> 179, y |-> 473, kind |-> E_SMOKE, phase |-> 9240189]>>,
     bonuses |-> <<>>,
     world |-> [spawn_y |-> -775, score |-> 46],
     score |-> 46, high_score |-> 46, scores_file |-> 46, ascended_px |-> 769,
     quiz |-> [selected |-> 0, cur |-> 0, feedback |-> FB_NONE, feedback_timer |-> 0],
     touch_x |-> NoTouch, next_id |-> 24]

\* a run of the constructed game after 2095 ticks, no key held, every platform
\* normal and in the player's column, no enemy and no bonus: the passive
\* drain has taken all of the energy but a fraction of one tick's
RunLowEnergy ==
    [state |-> STATE_PLAY,
     player |-> [x |-> 205, y |-> 288, prev_bottom |-> 338, vel_x |-> 0, vel_y |-> -175392,
                 energy |-> 160, lives |-> 2, score |-> 353, drain_slow |-> 0,
                 shield |-> 0, jet |-> 0, invincible |-> 0, last_safe_platform |-> 54],
     platforms |->
        <<Platform(51, 178, 798, P_NORMAL, 0), Platform(52, 178, 673, P_NORMAL, 0),
          Platform(53, 178, 548, P_NORMAL, 0), Platform(54, 178, 423, P_NORMAL, 0),
          Platform(55, 178, 298, P_NORMAL, 0), Platform(56, 178, 173, P_NORMAL, 0),
          Platform(57, 178, 49, P_NORMAL, 0), Platform(58, 178, -75, P_NORMAL, 0),
          Platform(59, 178, -199, P_NORMAL, 0), Platform(60, 178, -323, P_NORMAL, 0),
          Platform(61, 178, -447, P_NORMAL, 0), Platform(62, 178, -571, P_NORMAL, 0),
          Platform(63, 178, -695, P_NORMAL, 0), Platform(64, 178, -819, P_NORMAL, 0)>>,
     enemies |-> <<>>,
     bonuses |-> <<>>,
     world |-> [spawn_y |-> -819, score |-> 352],
     score |-> 353, high_score |-> 353, scores_file |-> 353, ascended_px |-> 5893,
     quiz |-> [selected |-> 0, cur |-> 0, feedback |-> FB_NONE, feedback_timer |-> 0],
     touch_x |-> NoTouch, next_id |-> 65]

\* a run of the constructed game after 493 ticks, the platforms spawned in the
\* player's column 154 px apart: from the fifteenth platform the player stepped
\* off to the right, fell past two platforms and is moving back in over the
\* lowest one on the screen, its bottom edge 5 px above that platform
RunFallToLowest ==
    [state |-> STATE_PLAY,
     player |-> [x |-> 247, y |-> 772, prev_bottom |-> 800, vel_x |-> -250356, vel_y |-> 355502,
                 energy |-> 769120, lives |-> 2, score |-> 76, drain_slow |-> 0,
                 shield |-> 0, jet |-> 0, invincible |-> 0, last_safe_platform |-> 16],
     platforms |->
        <<Platform(14, 178, 827, P_NORMAL, 0), Platform(15, 178, 673, P_NORMAL, 0),
          Platform(16, 178, 519, P_NORMAL, 0), Platform(17, 178, 366, P_NORMAL, 0),
          Platform(18, 178, 213, P_NORMAL, 0), Platform(19, 178, 60, P_NORMAL, 0),
          Platform(20, 178, -93, P_NORMAL, 0), Platform(21, 178, -246, P_NORMAL, 0),
          Platform(22, 178, -398, P_NORMAL, 0), Platform(23, 178, -550, P_NORMAL, 0),
          Platform(24, 178, -702, P_NORMAL, 0), Platform(25, 207, -854, P_NORMAL, 0)>>,
     enemies |-> <<>>,
     bonuses |-> <<>>,
     world |-> [spawn_y |-> -854, score |-> 76],
     score |-> 76, high_score |-> 76, scores_file |-> 76, ascended_px |-> 1279,
     quiz |-> [selected |-> 0, cur |-> 0, feedback |-> FB_NONE, feedback_timer |-> 0],
     touch_x |-> NoTouch, next_id |-> 26]

\* a run of the constructed game after 268 ticks, no key held, the platforms
\* spawned in the player's column and the first of them a disappearing one: the
\* player is falling onto it
RunBeforeDisappearing ==
    [state |-> STATE_PLAY,
     player |-> [x |-> 205, y |-> 337, prev_bottom |-> 380, vel_x |-> 0, vel_y |-> 112468,
                 energy |-> 877120, lives |-> 2, score |-> 30, drain_slow |-> 0,
                 shield |-> 0, jet |-> 0, invincible |-> 0, last_safe_platform |-> 10],
     platforms |->
        <<Platform(6, 178, 800, P_NORMAL, 0), Platform(7, 178, 730, P_NORMAL, 0),
          Platform(8, 178, 660, P_NORMAL, 0), Platform(9, 178, 590, P_NORMAL, 0),
          Platform(10, 178, 520, P_NORMAL, 0), Platform(12, 178, 390, P_DISAPPEARING, 0),
          Platform(13, 178, 260, P_NORMAL, 0), Platform(14, 178, 130, P_NORMAL, 0),
          Platform(15, 178, 0, P_NORMAL, 0), Platform(16, 178, -130, P_NORMAL, 0),
          Platform(17, 178, -260, P_NORMAL, 0), Platform(18, 178, -389, P_NORMAL, 0),
          Platform(19, 178, -518, P_NORMAL, 0), Platform(20, 178, -647, P_NORMAL, 0),
          Platform(21, 178, -776, P_NORMAL, 0)>>,
     enemies |-> <<>>,
     bonuses |-> <<>>,
     world |-> [spawn_y |-> -776, score |-> 30],
     score |-> 30, high_score |-> 30, scores_file |-> 30, ascended_px |-> 510,
     quiz |-> [selected |-> 0, cur |-> 0, feedback |-> FB_NONE, feedback_timer |-> 0],
     touch_x |-> NoTouch, next_id |-> 22]

\* the same run 40 ticks later: the player has left the disappearing platform
\* and is falling to the next one; the fade of the platform is down to 0.07
RunFading ==
    [state |-> STATE_PLAY,
     player |-> [x |-> 205, y |-> 318, prev_bottom |-> 363, vel_x |-> 0, vel_y |-> 88545,
                 energy |-> 857920, lives |-> 2, score |-> 38, drain_slow |-> 0,
                 shield |-> 0, jet |-> 0, invincible |-> 0, last_safe_platform |-> 12],
     platforms |->
        <<Platform(8, 178, 789, P_NORMAL, 0), Platform(9, 178, 719, P_NORMAL, 0),
          Platform(10, 178, 649, P_NORMAL, 0),
          [Platform(12, 178, 519, P_DISAPPEARING, 0) EXCEPT !.active = FALSE, !.fade = 7],
          Platform(13, 178, 389, P_NORMAL, 0), Platform(14, 178, 259, P_NORMAL, 0),
          Platform(15, 178, 129, P_NORMAL, 0), Platform(16, 178, -1, P_NORMAL, 0),
          Platform(17, 178, -131, P_NORMAL, 0), Platform(18, 178, -260, P_NORMAL, 0),
          Platform(19, 178, -389, P_NORMAL, 0), Platform(20, 178, -518, P_NORMAL, 0),
          Platform(21, 178, -647, P_NORMAL, 0), Platform(22, 178, -776, P_NORMAL, 0)>>,
     enemies |-> <<>>,
     bonuses |-> <<>>,
     world |-> [spawn_y |-> -776, score |-> 38],
     score |-> 38, high_score |-> 38, scores_file |-> 38, ascended_px |-> 639,
     quiz |-> [selected |-> 0, cur |-> 0, feedback |-> FB_NONE, feedback_timer |-> 0],
     touch_x |-> NoTouch, next_id |-> 23]

\* a long run of a game whose stored high score was 5000 (19568 ticks, every
\* platform normal and in one column, one life lost and won back, the energy
\* drained to 0), the score above 4000 and the last platforms spawned at the
\* smallest gap, 60 px: 22 platforms are on the screen and the player is
\* rising at the scroll line, about to pull the spawn frontier into reach
RunCrowded ==
    [state |-> STATE_PLAY,
     player |-> [x |-> 205, y |-> 288, prev_bottom |-> 338, vel_x |-> 0, vel_y |-> -252000,
                 energy |-> 0, lives |-> 1, score |-> 4542, drain_slow |-> 0,
                 shield |-> 0, jet |-> 0, invincible |-> 0, last_safe_platform |-> 583],
     platforms |->
        <<Platform(580, 178, 800, P_NORMAL, 0), Platform(581, 178, 687, P_NORMAL, 0),
          Platform(582, 178, 574, P_NORMAL, 0), Platform(583, 178, 461, P_NORMAL, 0),
          Platform(584, 178, 348, P_NORMAL, 0), Platform(585, 178, 235, P_NORMAL, 0),
          Platform(586, 178, 175, P_NORMAL, 0), Platform(587, 178, 115, P_NORMAL, 0),
          Platform(588, 178, 55, P_NORMAL, 0), Platform(589, 178, -5, P_NORMAL, 0),
          Platform(590, 178, -65, P_NORMAL, 0), Platform(591, 178, -125, P_NORMAL, 0),
          Platform(592, 178, -185, P_NORMAL, 0), Platform(593, 178, -245, P_NORMAL, 0),
          Platform(594, 178, -305, P_NORMAL, 0), Platform(595, 178, -365, P_NORMAL, 0),
          Platform(596, 178, -425, P_NORMAL, 0), Platform(597, 178, -485, P_NORMAL, 0),
          Platform(598, 178, -545, P_NORMAL, 0), Platform(599, 178, -605, P_NORMAL, 0),
          Platform(600, 178, -665, P_NORMAL, 0), Platform(601, 178, -725, P_NORMAL, 0)>>,
     enemies |-> <<>>,
     bonuses |-> <<>>,
     world |-> [spawn_y |-> -725, score |-> 4541],
     score |-> 4542, high_score |-> 5000, scores_file |-> 5000, ascended_px |-> 75708,
     quiz |-> [selected |-> 2, cur |-> 1, feedback |-> FB_CORRECT, feedback_timer |-> 0],
     touch_x |-> NoTouch, next_id |-> 602]

\* a run of the constructed game after 268 ticks, no key held, the platforms
\* spawned in the player's column and the first of them a hydro one: the
\* score is 30 and the player is falling onto the hydro platform
RunBeforeHydro ==
    [state |-> STATE_PLAY,
     player |-> [x |-> 205, y |-> 337, prev_bottom |-> 380, vel_x |-> 0, vel_y |-> 112468,
                 energy |-> 877120, lives |-> 2, score |-> 30, drain_slow |-> 0,
                 shield |-> 0, jet |-> 0, invincible |-> 0, last_safe_platform |-> 10],
     platforms |->
        <<Platform(6, 178, 800, P_NORMAL, 0), Platform(7, 178, 730, P_NORMAL, 0),
          Platform(8, 178, 660, P_NORMAL, 0), Platform(9, 178, 590, P_NORMAL, 0),
          Platform(10, 178, 520, P_NORMAL, 0), Platform(12, 178, 390, P_HYDRO, 0),
          Platform(13, 178, 260, P_NORMAL, 0), Platform(14, 178, 130, P_NORMAL, 0),
          Platform(15, 178, 0, P_NORMAL, 0), Platform(16, 178, -130, P_NORMAL, 0),
          Platform(17, 178, -260, P_NORMAL, 0), Platform(18, 178, -389, P_NORMAL, 0),
          Platform(19, 178, -518, P_NORMAL, 0), Platform(20, 178, -647, P_NORMAL, 0),
          Platform(21, 178, -776, P_NORMAL, 0)>>,
     enemies |-> <<>>,
     bonuses |-> <<>>,
     world |-> [spawn_y |-> -776, score |-> 30],
     score |-> 30, high_score |-> 30, scores_file |-> 30, ascended_px |-> 510,
     quiz |-> [selected |-> 0, cur |-> 0, feedback |-> FB_NONE, feedback_timer |-> 0],
     touch_x |-> NoTouch, next_id |-> 22]

\* a run of the constructed game after 513 ticks: every platform normal, those
\* from the 14th on to the right of the first column; the player went right
\* on ticks 300..317, climbed the right column, went left on ticks 430..443
\* past the platform landed on last (16) and is about to fall off the screen
RunSideFall ==
    [state |-> STATE_PLAY,
     player |-> [x |-> 229, y |-> 772, prev_bottom |-> 800, vel_x |-> 0, vel_y |-> 355167,
                 energy |-> 759520, lives |-> 2, score |-> 69, drain_slow |-> 0,
                 shield |-> 0, jet |-> 0, invincible |-> 0, last_safe_platform |-> 16],
     platforms |->
        <<Platform(14, 293, 780, P_NORMAL, 0), Platform(15, 293, 650, P_NORMAL, 0),
          Platform(16, 293, 520, P_NORMAL, 0), Platform(17, 293, 390, P_NORMAL, 0),
          Platform(18, 293, 261, P_NORMAL, 0), Platform(19, 293, 132, P_NORMAL, 0),
          Platform(20, 293, 3, P_NORMAL, 0), Platform(21, 293, -126, P_NORMAL, 0),
          Platform(22, 293, -255, P_NORMAL, 0), Platform(23, 331, -384, P_NORMAL, 0),
          Platform(24, 331, -512, P_NORMAL, 0), Platform(25, 331, -640, P_NORMAL, 0),
          Platform(26, 302, -768, P_NORMAL, 0)>>,
     enemies |-> <<>>,
     bonuses |-> <<>>,
     world |-> [spawn_y |-> -768, score |-> 69],
     score |-> 69, high_score |-> 69, scores_file |-> 69, ascended_px |-> 1160,
     quiz |-> [selected |-> 0, cur |-> 0, feedback |-> FB_NONE, feedback_timer |-> 0],
     touch_x |-> NoTouch, next_id |-> 27]

\* a run of the constructed game after 72 ticks, no key held: every platform
\* normal and in the player's column, a shield bonus over the 12th, a smoke
\* enemy over the 13th; the player, at the trigger line, is still rising
RunScrollWithSprites ==
    [state |-> STATE_PLAY,
     player |-> [x |-> 205, y |-> 288, prev_bottom |-> 343, vel_x |-> 0, vel_y |-> -80000,
                 energy |-> 971200, lives |-> 2, score |-> 0, drain_slow |-> 0,
                 shield |-> 0, jet |-> 0, invincible |-> 0, last_safe_platform |-> 3],
     platforms |->
        <<Platform(1, 178, 640, P_SOLAR, 0), Platform(2, 178, 570, P_NORMAL, 0),
          Platform(3, 178, 500, P_NORMAL, 0), Platform(4, 178, 430, P_NORMAL, 0),
          Platform(5, 178, 360, P_NORMAL, 0), Platform(6, 178, 290, P_NORMAL, 0),
          Platform(7, 178, 220, P_NORMAL, 0), Platform(8, 178, 150, P_NORMAL, 0),
          Platform(9, 178, 80, P_NORMAL, 0), Platform(10, 178, 10, P_NORMAL, 0),
          Platform(11, 178, 665, P_NORMAL, 0), Platform(12, 178, -120, P_NORMAL, 0),
          Platform(13, 178, -250, P_NORMAL, 0), Platform(14, 178, -380, P_NORMAL, 0),
          Platform(15, 178, -510, P_NORMAL, 0), Platform(16, 178, -640, P_NORMAL, 0),
          Platform(17, 178, -770, P_NORMAL, 0)>>,
     enemies |-> <<[x |-> 272, y |-> -296, kind |-> E_SMOKE, phase |-> 1728000]>>,
     bonuses |-> <<[x |-> 244, y |-> -164, kind |-> B_SHIELD, phase |-> 3456000]>>,
     world |-> [spawn_y |-> -770, score |-> 0],
     score |-> 0, high_score |-> 0, scores_file |-> 0, ascended_px |-> 0,
     quiz |-> [selected |-> 0, cur |-> 0, feedback |-> FB_NONE, feedback_timer |-> 0],
     touch_x |-> NoTouch, next_id |-> 18]

\* a run of the constructed game after 2578 ticks, no key held, every platform
\* normal and in the player's column: the passive drain took the last of the
\* energy at tick 2096, the player then took a shield bonus and is rising
\* into a smoke enemy
RunDrainedShielded ==
    [state |-> STATE_PLAY,
     player |-> [x |-> 205, y |-> 288, prev_bottom |-> 338, vel_x |-> 0, vel_y |-> -185548,
                 energy |-> 0, lives |-> 2, score |-> 434, drain_slow |-> 0,
                 shield |-> 678, jet |-> 0, invincible |-> 0, last_safe_platform |-> 65],
     platforms |->
        <<Platform(62, 178, 785, P_NORMAL, 0), Platform(63, 178, 661, P_NORMAL, 0),
          Platform(64, 178, 537, P_NORMAL, 0), Platform(65, 178, 413, P_NORMAL, 0),
          Platform(66, 178, 289, P_NORMAL, 0), Platform(67, 178, 166, P_NORMAL, 0),
          Platform(68, 178, 43, P_NORMAL, 0), Platform(69, 178, -80, P_NORMAL, 0),
          Platform(70, 178, -203, P_NORMAL, 0), Platform(71, 178, -326, P_NORMAL, 0),
          Platform(72, 178, -449, P_NORMAL, 0), Platform(73, 178, -572, P_NORMAL, 0),
          Platform(74, 178, -695, P_NORMAL, 0), Platform(75, 178, -818, P_NORMAL, 0)>>,
     enemies |-> <<[x |-> 212, y |-> 243, kind |-> E_SMOKE, phase |-> 10635123]>>,
     bonuses |-> <<>>,
     world |-> [spawn_y |-> -818, score |-> 434],
     score |-> 434, high_score |-> 434, scores_file |-> 434, ascended_px |-> 7249,
     quiz |-> [selected |-> 0, cur |-> 0, feedback |-> FB_NONE, feedback_timer |-> 0],
     touch_x |-> NoTouch, next_id |-> 76]

\* a run of the constructed game after 489 ticks, the platforms spawned in the
\* player's column 157 px apart: from the fifteenth platform the player stepped
\* off to the right, fell past two platforms and is moving back in over the
\* lowest one on the screen, whose top is 833, below the fall line HEIGHT + 60
\* and above the cleanup line HEIGHT + 120
RunFallToEdge ==
    [state |-> STATE_PLAY,
     player |-> [x |-> 247, y |-> 772, prev_bottom |-> 800, vel_x |-> -250387, vel_y |-> 355544,
                 energy |-> 771040, lives |-> 2, score |-> 77, drain_slow |-> 0,
                 shield |-> 0, jet |-> 0, invincible |-> 0, last_safe_platform |-> 16],
     platforms |->
        <<Platform(14, 178, 833, P_NORMAL, 0), Platform(15, 178, 676, P_NORMAL, 0),
          Platform(16, 178, 519, P_NORMAL, 0), Platform(17, 178, 363, P_NORMAL, 0),
          Platform(18, 178, 207, P_NORMAL, 0), Platform(19, 178, 51, P_NORMAL, 0),
          Platform(20, 178, -105, P_NORMAL, 0), Platform(21, 178, -261, P_NORMAL, 0),
          Platform(22, 178, -416, P_NORMAL, 0), Platform(23, 178, -571, P_NORMAL, 0),
          Platform(24, 184, -726, P_NORMAL, 0)>>,
     enemies |-> <<>>,
     bonuses |-> <<>>,
     world |-> [spawn_y |-> -726, score |-> 77],
     score |-> 77, high_score |-> 77, scores_file |-> 77, ascended_px |-> 1294,
     quiz |-> [selected |-> 0, cur |-> 0, feedback |-> FB_NONE, feedback_timer |-> 0],
     touch_x |-> NoTouch, next_id |-> 25]

RunsInProgress == {RunFirstFall, RunFirstScroll, RunBeforeBreaking, RunAboveBroken}
RunsAtTheBottom == {RunLateFallOneEnemy, RunLateFallTwoEnemies}

\* ---------------------------------------------------------------- specification
\* "high_score" read by load_scores at start-up
StoredHighScores == {0}

\* Game.__init__: STATE_MENU, the stored high score, and init_run
NewGame(hs, offs, phase) ==
    LET g0 == [state |-> STATE_MENU, player |-> Player(WIDTH \div 2, HEIGHT - 140, 2),
               platforms |-> <<>>, enemies |-> <<>>, bonuses |-> <<>>,
               world |-> [spawn_y |-> HEIGHT - 120, score |-> 0], score |-> 0,
               high_score |-> hs, scores_file |-> hs, ascended_px |-> 0,
               quiz |-> QuizUI, touch_x |-> NoTouch,
               next_id |-> 1, ticks |-> 0, obs |-> <<>>, hist |-> <<>>]
    IN init_run([g0 EXCEPT !.obs = NewObs("init", g0), !.hist = NewHist(g0)],
                offs, phase)

\* a run in progress, taken up with an empty history and t of the PLAY ticks
\* of the behaviour counted as taken
InProgress(s, t) ==
    s @@ [ticks |-> t, obs |-> NewObs("init", s), hist |-> NewHist(s)]

InitialGames ==
    {NewGame(hs, offs, phase) :
        hs \in StoredHighScores, offs \in LadderDraws, phase \in PhaseDraws}
    \cup {InProgress(s, 0) : s \in RunsInProgress}
    \cup {InProgress(s, 2) : s \in RunsAtTheBottom \cup {RunLastHit, RunFallToLowest, RunCrowded,
                                                    RunBeforeHydro, RunSideFall,
                                                    RunScrollWithSprites, RunDrainedShielded}}
    \cup {InProgress(s, 1) : s \in {RunShieldedHit, RunShieldedFall, RunLowEnergy,
                               RunBeforeDisappearing, RunFading, RunFallToEdge}}

Init ==
    \E g \in InitialGames :
       /\ state = g.state /\ player = g.player /\ platforms = g.platforms
       /\ enemies = g.enemies /\ bonuses = g.bonuses /\ world = g.world
       /\ score = g.score /\ high_score = g.high_score
       /\ scores_file = g.scores_file /\ ascended_px = g.ascended_px
       /\ quiz = g.quiz /\ touch_x = g.touch_x
       /\ next_id = g.next_id /\ ticks = g.ticks /\ obs = g.obs /\ hist = g.hist

\* a step that changes nothing of the game leaves the history as it is
Step(g) ==
    IF [g EXCEPT !.obs = obs] = Self THEN UNCHANGED vars
    ELSE Commit([g EXCEPT !.hist.best = Max(@, g.score)])

\* one event of the queue, handled by handle_events
Handle(ev) ==
    LET g0 == [Self EXCEPT !.obs = NewObs("event", Self)]
        \* the draws of init_run are taken only when the event resets the run
        resets == handle_event(g0, ev, DefaultLadder, 0).obs.reset
    IN \E offs \in IF resets THEN LadderDraws ELSE {DefaultLadder},
          phase \in PhaseDraws :
          Step(handle_event(g0, ev, offs, phase))

KeyDown == \E k \in KeyNames : Handle(Event("KEYDOWN", k, 0, FALSE))
MouseButtonDown == \E x \in TouchXs : Handle(Event("MOUSEBUTTONDOWN", "", x, TRUE))
MouseMotion ==
    \E x \in TouchXs, pressed \in BOOLEAN : Handle(Event("MOUSEMOTION", "", x, pressed))

\* Game.update(keys), then the frame ends: the next handle_events starts by
\* clearing _touch_x
Update ==
    /\ state = STATE_PLAY => ticks < MaxPlayTicks
    /\ \E keys \in Keys :
          LET g0 == [Self EXCEPT !.obs = NewObs("tick", Self),
                                 !.ticks = IF state = STATE_PLAY THEN @ + 1 ELSE @]
              \* a draw is taken only in a tick that uses it: whether the tick
              \* spawns, hits or picks does not depend on the values drawn
              d == update(g0, keys, DefaultTape, DefaultNudge, DefaultQuiz)
          IN \E tape \in IF d.next_id # g0.next_id THEN SpawnTapes ELSE {DefaultTape},
                nudge \in IF d.obs.hits > 0 THEN NudgeDraws ELSE {DefaultNudge},
                cur \in IF d.obs.picks > 0 THEN QuizDraws ELSE {DefaultQuiz} :
                Step([update(g0, keys, tape, nudge, cur) EXCEPT !.touch_x = NoTouch])

Next == KeyDown \/ MouseButtonDown \/ MouseMotion \/ Update

Spec == Init /\ [][Next]_vars

\* ---------------------------------------------------------------- the generator
\* the band of draws on which World.choose_platform_type gives kind: the draws
\* lo..hi-1 (in 1/DRAW_UNIT); the if-chain tests the kinds in this order, and
\* each edge is the least draw that falls through the test of the kind
Band(w, kind) ==
    LET order == <<P_SOLAR, P_WIND, P_HYDRO, P_NORMAL,
                   P_MOVING, P_DISAPPEARING, P_BREAKING>>
        Rank(k) == CHOOSE i \in 1..Len(order) : order[i] = k
        RECURSIVE First(_, _, _)
        First(i, lo, hi) ==
            IF lo = hi THEN lo
            ELSE LET mid == (lo + hi) \div 2
                 IN IF Rank(choose_platform_type(w, mid)) > i
                    THEN First(i, lo, mid) ELSE First(i, mid + 1, hi)
        Edge(i) == IF i = 0 THEN 0
                   ELSE IF i = Len(order) THEN DRAW_UNIT
                   ELSE First(i, 0, DRAW_UNIT)
    IN [lo |-> Edge(Rank(kind) - 1), hi |-> Edge(Rank(kind))]

\* World.choose_platform_type on its own: the world of a run that has ascended
\* asc pixels (score and world.score as the "Score" block leaves them), and
\* one call on a draw of random.random()
AscendedDraws == {0, 16, 17, 1000, 3999, 4000, 20000, 66666, 66667, 80000}
TypeDraws ==
    {k * 1000 : k \in 0..99}
    \cup {15999, 16000, 16001, 23519, 23520, 23999, 24000, 24001, 99999}

WorldAt(asc) ==
    LET g == NewGame(0, DefaultLadder, 0)
    IN [g EXCEPT !.state = STATE_PLAY,
                 !.ascended_px = asc,
                 !.score = ScoreOf(asc),
                 !.player.score = ScoreOf(asc),
                 !.world.score = ScoreOf(asc),
                 !.high_score = ScoreOf(asc),
                 !.scores_file = ScoreOf(asc),
                 !.hist.best = ScoreOf(asc)]

InitWorld ==
    \E asc \in AscendedDraws :
       LET g == WorldAt(asc)
       IN /\ state = g.state /\ player = g.player /\ platforms = g.platforms
          /\ enemies = g.enemies /\ bonuses = g.bonuses /\ world = g.world
          /\ score = g.score /\ high_score = g.high_score
          /\ scores_file = g.scores_file /\ ascended_px = g.ascended_px
          /\ quiz = g.quiz /\ touch_x = g.touch_x
          /\ next_id = g.next_id /\ ticks = g.ticks
          /\ obs = NewObs("init", g) /\ hist = g.hist

ChoosePlatformType ==
    \E r \in TypeDraws :
       Commit([Self EXCEPT !.obs = [NewObs("choose", Self) EXCEPT
                                      !.draw = r,
                                      !.chose = choose_platform_type(world, r)]])

\* Game.resolve_platform_collisions on its own: one call for a player that
\* Player.update has moved by fall px from a bottom at 400, and two platforms
\* in its column, each normal, disappearing or disappearing and landed on
\* before; the call changes the player and the platforms of the argument,
\* which are not those of the game at hand
CollisionFalls == {0, 30}
CollisionTops == {396, 404, 425}
ResolvePlatformCollisions ==
    \E fall \in CollisionFalls, t1 \in CollisionTops, t2 \in CollisionTops,
       s1 \in 1..3, s2 \in 1..3 :
       LET Shaped(id, top, sh) ==
               CASE sh = 1 -> Platform(id, 178, top, P_NORMAL, 0)
                 [] sh = 2 -> Platform(id, 178, top, P_DISAPPEARING, 0)
                 [] sh = 3 -> [Platform(id, 178, top, P_DISAPPEARING, 0) EXCEPT
                                  !.active = FALSE, !.fade = (85 * FADE_UNIT) \div 100]
           p == [player EXCEPT !.y = 400 + fall - PLAYER_H, !.prev_bottom = 400,
                               !.vel_y = fall * VEL_UNIT]
           plats == <<Shaped(1, t1, s1), Shaped(2, t2, s2)>>
           g == [Self EXCEPT !.player = p, !.platforms = plats,
                             !.obs = [NewObs("collide", Self) EXCEPT
                                        !.p0 = p, !.plats0 = plats]]
           r == resolve_platform_collisions(g, speed_factor(world))
       IN Commit([Self EXCEPT !.obs = [r.obs EXCEPT !.p1 = r.player,
                                                    !.plats1 = r.platforms]])

NextWorld == ChoosePlatformType \/ ResolvePlatformCollisions

SpecWorld == InitWorld /\ [][NextWorld]_vars

\* ---------------------------------------------------------------- properties
\* C1: in every reachable state the player's energy is within 0..100 (here in
\* units of 1/ENERGY_UNIT), whatever drains, hits, landings, pickups, falls and
\* revivals came before
C1_EnergyInRange == player.energy >= 0 /\ player.energy <= MAX_ENERGY

\* a landing on a solar platform whose gain the clamp cut at the maximum
C1_SolarLandingAtMaximum ==
    /\ obs.step = "tick"
    /\ Len(obs.landed) = 1 /\ obs.landed[1].kind = P_SOLAR
    /\ obs.effects = <<P_SOLAR>>
    /\ player.energy = MAX_ENERGY

\* C2: every call of trigger_quiz takes exactly one life; when the lives left
\* are negative the phase is GAMEOVER and no question was picked, otherwise a
\* question was picked and the phase is QUIZ
C2_TriggerTakesOneLife ==
    \A i \in 1..Len(obs.trig) :
       LET t == obs.trig[i]
       IN /\ t.after = t.before - 1
          /\ t.after < 0 => t.state = STATE_GAMEOVER /\ ~t.picked
          /\ t.after >= 0 => t.state = STATE_QUIZ /\ t.picked

\* a tick with a trigger_quiz call that opened the quiz and one that ended the game
C2_BothOutcomes ==
    \E i, j \in 1..Len(obs.trig) :
       /\ obs.trig[i].state = STATE_QUIZ /\ obs.trig[i].after >= 0
       /\ obs.trig[j].state = STATE_GAMEOVER /\ obs.trig[j].after = -1

\* C3: when a quiz is answered correctly the phase is PLAY again and lives is
\* what it was at the start of the PLAY tick in which the life was lost
C3_CorrectAnswerNetsZero ==
    obs.resolved = "correct" =>
        /\ obs.phase0 = STATE_QUIZ /\ state = STATE_PLAY
        /\ hist.fired /\ player.lives = hist.start

\* C4: an incorrect answer takes the phase from QUIZ to GAMEOVER with lives as
\* it was on entering the quiz, after the decrement
C4_WrongAnswerKeepsLives ==
    obs.resolved = "wrong" =>
        /\ obs.phase0 = STATE_QUIZ /\ state = STATE_GAMEOVER
        /\ hist.fired /\ player.lives = hist.entry
        /\ player.lives = obs.lives0

\* a quiz answered incorrectly
C4_WrongAnswerGiven ==
    /\ obs.step = "tick" /\ obs.resolved = "wrong"
    /\ obs.phase0 = STATE_QUIZ /\ state = STATE_GAMEOVER
    /\ hist.fired /\ hist.entry >= 0

\* C5: in every reachable state lives >= -1
C5_LivesFloor == player.lives >= -1

\* C6: the phase changes only along MENU->PLAY, PLAY->PAUSE, PAUSE->PLAY,
\* PAUSE->MENU, PLAY->QUIZ, PLAY->GAMEOVER, QUIZ->PLAY, QUIZ->GAMEOVER and
\* GAMEOVER->MENU, and no tick leaves MENU, PAUSE or GAMEOVER
C6_PhaseChanges ==
    [][/\ state' # state =>
            <<state, state'>> \in
               {<<STATE_MENU, STATE_PLAY>>, <<STATE_PLAY, STATE_PAUSE>>,
                <<STATE_PAUSE, STATE_PLAY>>, <<STATE_PAUSE, STATE_MENU>>,
                <<STATE_PLAY, STATE_QUIZ>>, <<STATE_PLAY, STATE_GAMEOVER>>,
                <<STATE_QUIZ, STATE_PLAY>>, <<STATE_QUIZ, STATE_GAMEOVER>>,
                <<STATE_GAMEOVER, STATE_MENU>>}
       /\ obs'.step = "tick" /\ state \in {STATE_MENU, STATE_PAUSE, STATE_GAMEOVER}
            => state' = state]_vars

\* a confirm input that took a game lost in play from GAMEOVER to MENU
C6_GameOverLeftForMenu ==
    /\ obs.step = "event" /\ obs.phase0 = STATE_GAMEOVER /\ state = STATE_MENU
    /\ hist.fired

\* C7: within a run the score never decreases from one step to the next, and
\* it is max(score before, floor(0.06 * ascended_px))
C7_ScoreMonotonic ==
    ~obs.reset =>
        /\ score >= obs.score0
        /\ score = Max(obs.score0, (ascended_px * 6) \div 100)

\* a PLAY tick that raised the score
C7_ScoreRaised ==
    /\ obs.step = "tick" /\ obs.phase0 = STATE_PLAY /\ ~obs.reset
    /\ score > obs.score0

C9_InactiveStaysInactive ==
    [][~obs'.reset =>
         /\ \A i \in 1..Len(platforms), j \in 1..Len(platforms') :
               platforms[i].id = platforms'[j].id /\ ~platforms[i].active
                  => ~platforms'[j].active
         /\ \A k \in 1..Len(obs'.landed) : obs'.landed[k].was_active]_vars

\* a falling player came down through an inactive platform and did not land
C9_FellThroughInactive ==
    /\ obs.step = "tick" /\ obs.vy > 0
    /\ obs.inactive_hit /\ obs.landed = <<>> /\ obs.effects = <<>>

\* C10: in a PLAY tick in which vel.y after Player.update is negative no
\* landing is applied: no platform effect, no platform deactivated, the safe
\* platform as before
C10_NoLandingWhileAscending ==
    [][obs'.step = "tick" /\ obs'.phase0 = STATE_PLAY /\ obs'.vy < 0 =>
         /\ obs'.landed = <<>> /\ obs'.effects = <<>>
         /\ player'.last_safe_platform = player.last_safe_platform
         /\ \A i \in 1..Len(platforms), j \in 1..Len(platforms') :
               platforms[i].id = platforms'[j].id /\ platforms[i].active
                  => platforms'[j].active]_vars

\* an ascending player whose rect met an active platform, and went through
C10_RoseThroughPlatform ==
    /\ obs.step = "tick" /\ obs.phase0 = STATE_PLAY /\ obs.vy < 0
    /\ obs.touching /\ obs.landed = <<>>

\* C11: in every PLAY tick the progress factor used is clamp(score / 4000, 0, 1)
\* for the score at the start of the tick, it is 1 exactly when that score is
\* 4000 or more, and the speed factor is 1 + 0.5 * progress factor (progress
\* factor in 1/PROGRESS_FULL, speed factor in 1/SPEED_UNIT)
C11_ProgressFromScore ==
    obs.step = "tick" /\ obs.phase0 = STATE_PLAY =>
        /\ obs.pf = (IF obs.score0 < 0 THEN 0
                     ELSE IF obs.score0 > 4000 THEN 4000 ELSE obs.score0)
        /\ (obs.pf = 4000) <=> (obs.score0 >= 4000)
        /\ 2 * obs.sf = 2 * 8000 + (8000 * obs.pf) \div 4000

\* a PLAY tick taken with a score between 0 and 4000
C11_TickAtPartProgress ==
    /\ obs.step = "tick" /\ obs.phase0 = STATE_PLAY
    /\ obs.score0 > 0 /\ obs.score0 < 4000 /\ obs.asc0 > obs.score0
    /\ obs.pf = obs.score0

\* C11 as stated: in every PLAY tick the progress factor used is
\* clamp(ascended distance / 4000, 0, 1) and the speed factor 1 + 0.5 * that
C11_ProgressFromDistance ==
    obs.step = "tick" /\ obs.phase0 = STATE_PLAY =>
        /\ obs.pf = (IF obs.asc0 < 0 THEN 0
                     ELSE IF obs.asc0 > 4000 THEN 4000 ELSE obs.asc0)
        /\ 2 * obs.sf = 2 * 8000 + (8000 * obs.pf) \div 4000

\* C12: choose_platform_type gives solar exactly for the draws in [0, 0.24)
\* when the ascended distance is 0, and exactly for the draws in [0, 0.16) when
\* the score is 4000 or more (draws in 1/DRAW_UNIT)
C12_SolarBandByScore ==
    obs.step = "choose" =>
        /\ ascended_px = 0 => (obs.chose = P_SOLAR <=> obs.draw < 24000)
        /\ world.score >= 4000 => (obs.chose = P_SOLAR <=> obs.draw < 16000)

\* at a score above 4000 the first draw that is not solar is 0.16
C12_FirstDrawPastSolar ==
    /\ obs.step = "choose" /\ world.score >= 4000 /\ ascended_px >= 66667
    /\ obs.draw = 16000 /\ obs.chose = P_WIND

\* C12 as stated: solar exactly for the draws in [0, 0.24) when the ascended
\* distance is 0, and exactly for the draws in [0, 0.16) when the ascended
\* distance is 4000 or more
C12_SolarBandByDistance ==
    obs.step = "choose" =>
        /\ ascended_px = 0 => (obs.chose = P_SOLAR <=> obs.draw < 24000)
        /\ ascended_px >= 4000 => (obs.chose = P_SOLAR <=> obs.draw < 16000)

\* C13: an enemy contact that finds the player with shield > 0 and no
\* invincibility leaves shield = 0 and the energy as it was; with invincibility
\* left the contact changes nothing of the player, the shield included
C13_ShieldTakesTheHit ==
    \A i \in 1..Len(obs.hitlog) :
       LET h == obs.hitlog[i] IN
       /\ h.before.shield > 0 /\ h.before.invincible = 0 =>
             h.after = [h.before EXCEPT !.shield = 0]
       /\ h.before.invincible > 0 => h.after = h.before

\* a contact that took the shield of a player with energy to lose
C13_ShieldTaken ==
    \E i \in 1..Len(obs.hitlog) :
       LET h == obs.hitlog[i] IN
       /\ h.before.shield > 0 /\ h.before.invincible = 0 /\ h.before.energy > 0
       /\ h.after.shield = 0 /\ h.after.energy = h.before.energy

\* C13 as stated: every enemy contact that finds shield > 0 leaves shield = 0
\* and the energy as it was
C13_ShieldAlwaysTaken ==
    \A i \in 1..Len(obs.hitlog) :
       LET h == obs.hitlog[i] IN
       h.before.shield > 0 =>
          h.after.shield = 0 /\ h.after.energy = h.before.energy

\* C14: an enemy contact that finds the player with no shield and no
\* invincibility leaves the energy at max(0, energy - 22), and when that is 0
\* trigger_quiz is called at once: a life is taken and the tick ends in QUIZ or
\* GAMEOVER
C14_HitTakesEnergy ==
    \A i \in 1..Len(obs.hitlog) :
       LET h == obs.hitlog[i] IN
       h.before.shield = 0 /\ h.before.invincible = 0 =>
          /\ h.after.energy = Max(0, h.before.energy - 22 * ENERGY_UNIT)
          /\ h.after.energy = 0 =>
                /\ h.fired = 1
                /\ h.phase \in {STATE_QUIZ, STATE_GAMEOVER}
                /\ obs.step = "tick" /\ obs.phase0 = STATE_PLAY
                /\ player.lives < obs.lives0
                /\ state \in {STATE_QUIZ, STATE_GAMEOVER}

\* a contact that took the last of the energy, less than 22, and with it a life
C14_LastEnergyTaken ==
    \E i \in 1..Len(obs.hitlog) :
       LET h == obs.hitlog[i] IN
       /\ h.before.shield = 0 /\ h.before.invincible = 0
       /\ h.before.energy > 0 /\ h.before.energy < 22 * ENERGY_UNIT
       /\ h.after.energy = 0 /\ h.fired = 1
       /\ player.lives = obs.lives0 - 1

\* C15: a PLAY tick that leaves the player's energy at 0, whatever took it,
\* ends in QUIZ or GAMEOVER
C15_NoPlayWithoutEnergy ==
    obs.step = "tick" /\ obs.phase0 = STATE_PLAY /\ player.energy = 0 =>
        state \in {STATE_QUIZ, STATE_GAMEOVER}

\* C16: in a PLAY tick that has the player's top edge below HEIGHT + 60 when
\* the fall is tested (after the collisions and the clean-up), the energy
\* becomes 0, trigger_quiz is called and the tick ends in QUIZ or GAMEOVER with
\* a life taken; so does every tick that has the top edge there after the
\* movement and the camera and lands on no platform
C16_FallTakesLife ==
    obs.step = "tick" /\ obs.phase0 = STATE_PLAY
        /\ (player.y > HEIGHT + 60 \/ (obs.top > HEIGHT + 60 /\ obs.landed = <<>>)) =>
        /\ player.energy = 0
        /\ Len(obs.trig) >= 1
        /\ player.lives < obs.lives0
        /\ state \in {STATE_QUIZ, STATE_GAMEOVER}

\* a tick that moved the player below the line with nothing to land on and no
\* enemy met, and took a life for the fall
C16_FellOffWithEnergy ==
    /\ obs.step = "tick" /\ obs.phase0 = STATE_PLAY
    /\ obs.top > HEIGHT + 60 /\ obs.landed = <<>> /\ obs.hits = 0
    /\ player.y = obs.top /\ player.energy = 0
    /\ Len(obs.trig) = 1 /\ player.lives = obs.lives0 - 1
    /\ state = STATE_QUIZ

\* C16 as stated: the position after the movement and the camera decides
C16_FallAfterMovement ==
    obs.step = "tick" /\ obs.phase0 = STATE_PLAY /\ obs.top > HEIGHT + 60 =>
        /\ player.energy = 0
        /\ Len(obs.trig) >= 1
        /\ state \in {STATE_QUIZ, STATE_GAMEOVER}

\* C17: a landing on a disappearing platform leaves it inactive with fade
\* 0.85 less the decay step of the same tick; an inactive disappearing
\* platform has had 1 to 14 decay steps of 0.06 (fade 0.85 - 0.06 k > 0), each
\* step of the game applies at most one more, and the platform is destroyed
\* by the step that applies the 15th and by no other step, unless it scrolls
\* below HEIGHT + 120 or the run is reset
C17_DestroyedAtFifteenthStep ==
    [][/\ \A i \in 1..Len(obs'.landed) :
             LET l == obs'.landed[i] IN
             l.kind = P_DISAPPEARING /\ l.was_active /\ alive(platforms', l.id) =>
                LET q == PlatformById(platforms', l.id)
                IN ~q.active /\ q.fade = 85 - 6
       /\ \A i \in 1..Len(platforms) :
             LET q == platforms[i]
                 steps == (85 - q.fade) \div 6
                 decays == obs'.step = "tick" /\ obs'.phase0 = STATE_PLAY /\ obs'.vy > 0
                 scrolled == q.y + (ascended_px' - ascended_px) > HEIGHT + 120
             IN q.kind = P_DISAPPEARING /\ ~q.active =>
                /\ q.fade = 85 - 6 * steps /\ steps \in 1..14
                /\ ~obs'.reset /\ ~scrolled =>
                      IF alive(platforms', q.id)
                      THEN LET r == PlatformById(platforms', q.id)
                           IN /\ ~r.active
                              /\ r.fade = IF decays THEN q.fade - 6 ELSE q.fade
                              /\ ~(decays /\ steps = 14)
                      ELSE decays /\ steps = 14]_vars

\* a disappearing platform that has been landed on, and that 14 decay steps
\* have left a fade of 0.01, is about to be destroyed
C17_FourteenStepsApplied ==
    /\ obs.step = "tick"
    /\ \E i \in 1..Len(platforms) :
          /\ platforms[i].kind = P_DISAPPEARING /\ ~platforms[i].active
          /\ platforms[i].fade = 85 - 14 * 6
          /\ player.last_safe_platform = platforms[i].id

\* C18: the quit input in PAUSE and the confirm input in GAMEOVER lead to MENU
\* with the run reset: score 0, ascended distance 0, lives 2, energy 100, every
\* timer 0, no enemy and no bonus, and 11 active platforms, ten of them a
\* ladder 70 px apart from HEIGHT - 80 up whose first is solar and whose others
\* are normal, the eleventh a normal one 60 px under the player; the high
\* score is what it was
C18_MenuAfterReset ==
    obs.step = "event" /\ obs.phase0 \in {STATE_PAUSE, STATE_GAMEOVER}
        /\ state = STATE_MENU =>
        /\ obs.reset
        /\ score = 0 /\ player.score = 0 /\ ascended_px = 0
        /\ player.lives = 2 /\ player.energy = MAX_ENERGY
        /\ player.drain_slow = 0 /\ player.shield = 0 /\ player.jet = 0
        /\ player.invincible = 0
        /\ enemies = <<>> /\ bonuses = <<>>
        /\ Len(platforms) = 11
        /\ \A i \in 1..11 : platforms[i].active /\ platforms[i].fade = FADE_UNIT
        /\ platforms[1].kind = P_SOLAR
        /\ \A i \in 2..11 : platforms[i].kind = P_NORMAL
        /\ \A i \in 1..10 : platforms[i].y = HEIGHT - 80 - 70 * (i - 1)
        /\ platforms[11].y = player.y + PLAYER_H + 60
        /\ platforms[11].x <= player.x /\ player.x + PLAYER_W <= platforms[11].x + PLATFORM_W
        /\ high_score = obs.high0 /\ scores_file = obs.file0

\* the quit input given in the pause of a run that had climbed, and whose
\* score was the high score
C18_QuitFromPause ==
    /\ obs.step = "event" /\ obs.phase0 = STATE_PAUSE /\ state = STATE_MENU
    /\ obs.score0 > 0 /\ score = 0 /\ high_score = obs.score0
    /\ obs.asc0 > 0 /\ ascended_px = 0
    /\ enemies = <<>>

\* C19: a tick in PAUSE leaves the phase, the player (position, velocity,
\* energy, lives, timers), the platforms, the enemies, the bonuses, the spawn
\* frontier, the ascended distance, the score, the high score and the quiz as
\* they were
C19_PauseFreezes ==
    [][state = STATE_PAUSE /\ obs'.step = "tick" =>
          /\ state' = STATE_PAUSE
          /\ player' = player
          /\ platforms' = platforms
          /\ enemies' = enemies
          /\ bonuses' = bonuses
          /\ world' = world
          /\ ascended_px' = ascended_px
          /\ score' = score
          /\ high_score' = high_score
          /\ scores_file' = scores_file
          /\ quiz' = quiz
          /\ next_id' = next_id]_vars

\* a tick that found the game paused with a shielded player in flight and an
\* enemy on the screen, and with a touch to clear
C19_PausedInFlight ==
    /\ obs.step = "tick" /\ obs.phase0 = STATE_PAUSE /\ state = STATE_PAUSE
    /\ player.shield > 0 /\ player.vel_y # 0
    /\ player.energy > 0 /\ player.energy < MAX_ENERGY
    /\ enemies # <<>>
    /\ touch_x = NoTouch

\* C20: Player.update, run in every PLAY tick and in no other, takes 1 from
\* each counter of the player that is above 0; a QUIZ tick takes 1 from the
\* quiz feedback counter while it is above 0 and leaves the counters of the
\* player alone unless the answer is resolved, which changes only the
\* invincibility; a MENU, PAUSE or GAMEOVER tick changes none of them
C20_CountersByPhase ==
    LET Timers(p) == <<p.drain_slow, p.shield, p.jet, p.invincible>>
        Less1(p) == <<Max(0, p.drain_slow - 1), Max(0, p.shield - 1),
                      Max(0, p.jet - 1), Max(0, p.invincible - 1)>>
    IN
    obs.step = "tick" =>
        /\ obs.phase0 = STATE_PLAY =>
              /\ Timers(obs.p1) = Less1(obs.p0)
              /\ obs.fb0 = 0 /\ quiz.feedback_timer = 0
        /\ obs.phase0 = STATE_QUIZ =>
              /\ quiz.feedback_timer = Max(0, obs.fb0 - 1)
              /\ obs.resolved = None => Timers(player) = Timers(obs.p0)
              /\ player.drain_slow = obs.p0.drain_slow
              /\ player.shield = obs.p0.shield
              /\ player.jet = obs.p0.jet
        /\ obs.phase0 \in {STATE_MENU, STATE_PAUSE, STATE_GAMEOVER} =>
              /\ Timers(player) = Timers(obs.p0)
              /\ quiz.feedback_timer = obs.fb0

\* a QUIZ tick that took 1 from the feedback counter and left the shield of
\* the player running
C20_ShieldKeptInQuiz ==
    /\ obs.step = "tick" /\ obs.phase0 = STATE_QUIZ
    /\ obs.fb0 > 1 /\ quiz.feedback_timer = obs.fb0 - 1
    /\ obs.p0.shield > 0 /\ player.shield = obs.p0.shield

\* C20 as stated: every tick outside PAUSE takes 1 from each counter of the
\* player and from the quiz feedback counter, floored at 0
C20_CountersOutsidePause ==
    LET Timers(p) == <<p.drain_slow, p.shield, p.jet, p.invincible>>
        Less1(p) == <<Max(0, p.drain_slow - 1), Max(0, p.shield - 1),
                      Max(0, p.jet - 1), Max(0, p.invincible - 1)>>
    IN
    obs.step = "tick" /\ obs.phase0 # STATE_PAUSE =>
        /\ quiz.feedback_timer = Max(0, obs.fb0 - 1)
        /\ IF obs.phase0 = STATE_PLAY
           THEN Timers(obs.p1) = Less1(obs.p0)
           ELSE obs.resolved = None => Timers(player) = Less1(obs.p0)

\* C21: every PLAY tick takes 0.06 from the fade of a disappearing platform
\* that has been landed on, whatever the player's vertical velocity, or
\* destroys the platform
C21_FadesEveryTick ==
    [][obs'.step = "tick" /\ obs'.phase0 = STATE_PLAY /\ ~obs'.reset =>
          \A i \in 1..Len(platforms) :
             LET q == platforms[i] IN
             q.kind = P_DISAPPEARING /\ ~q.active /\ alive(platforms', q.id) =>
                PlatformById(platforms', q.id).fade = q.fade - 6]_vars

\* C22: the platforms the cap of 22 destroys at the end of spawning are the
\* lowest ones: each is at or below every platform that is kept
C22_CapKillsLowest ==
    \A y \in obs.killed : \A z \in obs.kept : y >= z

\* C23: in QUIZ the feedback counter is 0 with no feedback, and 1 to 54 once an
\* answer has been confirmed; a confirm sets it to 54 (0.9 s of 60 frames) and
\* leaves the phase QUIZ, a QUIZ tick takes 1 from it, and the phase leaves
\* QUIZ only in the tick that takes it from 1 to 0, which resolves the answer
C23_FeedbackWindow ==
    [][state = STATE_QUIZ =>
          /\ IF quiz.feedback = FB_NONE THEN quiz.feedback_timer = 0
             ELSE quiz.feedback_timer \in 1..54
          /\ obs'.step = "event" =>
                /\ state' = STATE_QUIZ
                /\ quiz'.feedback_timer \in {quiz.feedback_timer, 54}
                /\ quiz'.feedback # quiz.feedback => quiz'.feedback_timer = 54
          /\ obs'.step = "tick" =>
                /\ quiz'.feedback_timer = Max(0, quiz.feedback_timer - 1)
                /\ (state' # STATE_QUIZ) <=> (quiz.feedback_timer = 1)
                /\ (obs'.resolved # None) <=> (quiz.feedback_timer = 1)
                /\ state' \in {STATE_QUIZ, STATE_PLAY, STATE_GAMEOVER}]_vars

\* the tick that took the feedback counter from 1 to 0 and sent the player
\* back to play
C23_WindowElapsed ==
    /\ obs.step = "tick" /\ obs.phase0 = STATE_QUIZ /\ obs.fb0 = 1
    /\ quiz.feedback_timer = 0 /\ obs.resolved = "correct" /\ state = STATE_PLAY

\* C24: the vel.y a landing on a hydro platform leaves is 1.07 times the
\* vel.y a landing on a normal platform leaves at the speed factor of the
\* tick, PLAYER_JUMP_VEL * speed_factor (to the unit of vel.y)
C24_HydroSevenPercent ==
    \A i \in 1..Len(obs.landed) :
       LET l == obs.landed[i]
           normal == (PLAYER_JUMP_VEL \div SPEED_UNIT) * obs.sf
           d == 100 * l.vy - 107 * normal
       IN l.kind = P_HYDRO => d > -100 /\ d < 100

\* C25: in a PLAY tick with a direction given, Player.update moves the player
\* by int(PLAYER_MOVE_SPEED * speed_factor) px (when it does not wrap around)
C25_DisplacementScaled ==
    LET dx == obs.p1.x - obs.p0.x
        wraps == obs.p1.x = WIDTH \/ obs.p1.x = 0 - PLAYER_W
        speed == (PLAYER_MOVE_SPEED \div SPEED_UNIT) * obs.sf
    IN obs.step = "tick" /\ obs.phase0 = STATE_PLAY /\ obs.p1.vel_x # 0 /\ ~wraps =>
          (IF dx < 0 THEN 0 - dx ELSE dx) = speed \div XVEL_UNIT

\* C26: every draw lies in the band of the kind it gives, and from a progress
\* p1 to a larger progress p2 the band of solar is narrower, the band of wind
\* has the same width, the band of hydro is not narrower (wider from two score
\* points on), the band of normal is not wider (narrower from two score points
\* on), the band of moving is wider, and the bands of disappearing and breaking
\* have the same width (widths in draws of 1/DRAW_UNIT)
C26_BandWidthsByProgress ==
    LET Width(w, k) == LET b == Band(w, k) IN b.hi - b.lo
    IN obs.step = "choose" =>
        /\ Band(world, obs.chose).lo <= obs.draw
        /\ obs.draw < Band(world, obs.chose).hi
        /\ \A asc \in AscendedDraws :
              LET w1 == WorldAt(asc).world
                  d == progress_factor(world) - progress_factor(w1)
              IN d > 0 =>
                  /\ Width(world, P_SOLAR) < Width(w1, P_SOLAR)
                  /\ Width(world, P_WIND) = Width(w1, P_WIND)
                  /\ Width(world, P_HYDRO) >= Width(w1, P_HYDRO)
                  /\ d >= 2 => Width(world, P_HYDRO) > Width(w1, P_HYDRO)
                  /\ Width(world, P_NORMAL) <= Width(w1, P_NORMAL)
                  /\ d >= 2 => Width(world, P_NORMAL) < Width(w1, P_NORMAL)
                  /\ Width(world, P_MOVING) > Width(w1, P_MOVING)
                  /\ Width(world, P_DISAPPEARING) = Width(w1, P_DISAPPEARING)
                  /\ Width(world, P_BREAKING) = Width(w1, P_BREAKING)

\* at progress 1 the draw 0.40, a wind draw at progress 0, gives hydro, whose
\* band has grown from 0.16 to 0.18
C26_HydroBandGrown ==
    /\ obs.step = "choose" /\ progress_factor(world) = PROGRESS_FULL
    /\ obs.draw = 40000 /\ obs.chose = P_HYDRO
    /\ choose_platform_type(WorldAt(0).world, obs.draw) = P_WIND
    /\ Band(world, P_HYDRO) = [lo |-> 36000, hi |-> 54000]
    /\ Band(WorldAt(0).world, P_HYDRO) = [lo |-> 44000, hi |-> 60000]

\* C26 as stated: from a progress p1 to a larger progress p2 the bands of
\* solar, wind, hydro and normal are narrower, and the bands of moving,
\* disappearing and breaking have the same width
C26_EnergyBandsNarrower ==
    LET Width(w, k) == LET b == Band(w, k) IN b.hi - b.lo
    IN obs.step = "choose" =>
        \A asc \in AscendedDraws :
           LET w1 == WorldAt(asc).world
           IN progress_factor(w1) < progress_factor(world) =>
               /\ \A k \in {P_SOLAR, P_WIND, P_HYDRO, P_NORMAL} :
                     Width(world, k) < Width(w1, k)
               /\ \A k \in {P_MOVING, P_DISAPPEARING, P_BREAKING} :
                     Width(world, k) = Width(w1, k)

\* C27: the tick that leaves STATE_QUIZ after a correct answer leaves the
\* player in STATE_PLAY with zero velocity, energy >= 55 and invincible = 120,
\* standing over the last safe platform (bottom 2 px above its top, within its
\* width) if that platform is still in the collection, else with the centre of
\* the rect at the centre of the screen
C27_RevivedOnSafePlatform ==
    obs.step = "tick" /\ obs.phase0 = STATE_QUIZ /\ obs.resolved = "correct" =>
        /\ state = STATE_PLAY
        /\ player.vel_x = 0 /\ player.vel_y = 0
        /\ player.energy >= REVIVE_ENERGY
        /\ player.invincible = DUR_INVINCIBLE
        /\ IF player.last_safe_platform # NoPlatform
              /\ alive(platforms, player.last_safe_platform)
           THEN LET q == PlatformById(platforms, player.last_safe_platform)
                IN /\ player.y + PLAYER_H = q.y - 2
                   /\ player.x + PLAYER_W > q.x
                   /\ player.x < q.x + PLATFORM_W
           ELSE /\ player.x + PLAYER_W \div 2 = WIDTH \div 2
                /\ player.y + PLAYER_H \div 2 = HEIGHT \div 2

\* C28: a PLAY tick whose Player.update leaves the player's top above the
\* trigger line adds the overshoot dy to ascended_px, to world.spawn_y and to
\* the y of every platform, enemy and bonus, and sets the player's top to the
\* trigger line; no other step changes ascended_px, but for init_run, which
\* starts a run at 0, and ascended_px never decreases within a run
C28_CameraShift ==
    [][LET scrolled == /\ obs'.step = "tick" /\ obs'.phase0 = STATE_PLAY
                       /\ obs'.cam0.top < SCROLL_TRIGGER_Y
           dy == SCROLL_TRIGGER_Y - obs'.cam0.top
           Shifted(k) == [i \in 1..Len(obs'.cam0[k]) |-> obs'.cam0[k][i] + dy]
       IN /\ scrolled =>
                /\ obs'.cam0.ascended_px = ascended_px
                /\ ascended_px' = ascended_px + dy
                /\ obs'.cam1.ascended_px = ascended_px + dy
                /\ obs'.cam1.spawn_y = obs'.cam0.spawn_y + dy
                /\ obs'.cam1.platforms = Shifted("platforms")
                /\ obs'.cam1.enemies = Shifted("enemies")
                /\ obs'.cam1.bonuses = Shifted("bonuses")
                /\ obs'.cam1.top = SCROLL_TRIGGER_Y
          /\ ~scrolled => \/ ascended_px' = ascended_px
                          \/ (obs'.reset /\ ascended_px' = 0)
          /\ ~obs'.reset => ascended_px' >= ascended_px]_vars

\* a PLAY tick whose camera shifted platforms, an enemy and a bonus by some dy > 0
C28_ScrolledWithSprites ==
    /\ obs.step = "tick" /\ obs.phase0 = STATE_PLAY
    /\ obs.cam0.top < SCROLL_TRIGGER_Y
    /\ ascended_px = obs.asc0 + (SCROLL_TRIGGER_Y - obs.cam0.top)
    /\ Len(obs.cam0.platforms) > 0
    /\ Len(obs.cam0.enemies) > 0
    /\ Len(obs.cam0.bonuses) > 0
    /\ obs.cam1.enemies # obs.cam0.enemies
    /\ obs.cam1.bonuses # obs.cam0.bonuses

\* C29: a call of resolve_platform_collisions applies at most one landing; when
\* the player is falling and active platforms meet the straddle test, the
\* landing is on the first of them in the order of the group, and each of the
\* others is left as it was, active flag and fade included
C29_OneLandingPerTick ==
    obs.step = "collide" =>
        LET hits == {i \in 1..Len(obs.plats0) :
                        obs.plats0[i].active /\ Straddle(obs.p0, obs.plats0[i])}
            first == CHOOSE i \in hits : \A j \in hits : i <= j
        IN /\ Len(obs.landed) <= 1
           /\ obs.p0.vel_y > 0 /\ hits # {} =>
                 /\ Len(obs.landed) = 1
                 /\ obs.landed[1].id = obs.plats0[first].id
                 /\ \A j \in hits \ {first} :
                       \E k \in 1..Len(obs.plats1) : obs.plats1[k] = obs.plats0[j]

\* a call that found two active platforms straddled, the second of them a
\* disappearing one and higher than the first, and landed on the first only
C29_SecondPlatformPassedOver ==
    /\ obs.step = "collide" /\ obs.p0.vel_y > 0
    /\ \A i \in 1..2 : obs.plats0[i].active /\ Straddle(obs.p0, obs.plats0[i])
    /\ obs.plats0[2].kind = P_DISAPPEARING
    /\ obs.plats0[2].y < obs.plats0[1].y
    /\ Len(obs.landed) = 1 /\ obs.landed[1].id = obs.plats0[1].id
    /\ obs.p1.y + PLAYER_H = obs.plats0[1].y
    /\ obs.plats1[2] = obs.plats0[2]

\* C30: an enemy contact that finds the player invincible, or with a shield,
\* calls trigger_quiz not once: the lives and the state are after the contact
\* what they were before it
C30_AbsorbedContactTakesNoLife ==
    \A i \in 1..Len(obs.hitlog) :
       LET h == obs.hitlog[i] IN
       h.before.invincible > 0 \/ h.before.shield > 0 =>
           /\ h.fired = 0
           /\ h.after.lives = h.before.lives
           /\ h.phase = STATE_PLAY

\* C31: once an answer has been confirmed in QUIZ (a feedback is set), no
\* event of the feedback window changes the feedback, and the tick that leaves
\* QUIZ goes to PLAY for the feedback of a correct answer and to GAMEOVER for
\* that of a wrong one: the transition is the one the first confirm decided
C31_FirstConfirmDecides ==
    [][state = STATE_QUIZ /\ quiz.feedback # FB_NONE =>
          /\ obs'.step = "event" => quiz'.feedback = quiz.feedback
          /\ obs'.step = "tick" /\ state' # STATE_QUIZ =>
                /\ quiz'.feedback = quiz.feedback
                /\ state' = IF quiz.feedback = FB_CORRECT
                            THEN STATE_PLAY ELSE STATE_GAMEOVER]_vars

\* C32: after every step, a tick or an event (init_run included), the platform
\* collection holds at most MAX_PLATFORMS_ON_SCREEN platforms
C32_AtMostTwentyTwoPlatforms ==
    Len(platforms) <= MAX_PLATFORMS_ON_SCREEN

\* a PLAY tick whose spawn_next made more platforms than the maximum and
\* whose cap left exactly the maximum
C32_CapReached ==
    /\ obs.step = "tick" /\ obs.phase0 = STATE_PLAY
    /\ obs.killed # {}
    /\ Cardinality(obs.kept) = MAX_PLATFORMS_ON_SCREEN
    /\ Len(platforms) = MAX_PLATFORMS_ON_SCREEN

\* C33: the tick that revives the player (a correct answer resolved) leaves
\* the player's top at most HEIGHT + 60, where the fall test of the next PLAY
\* tick finds nothing
C33_RevivedAboveFallLine ==
    obs.step = "tick" /\ obs.phase0 = STATE_QUIZ /\ obs.resolved = "correct" =>
        player.y <= HEIGHT + 60

====
